---- MODULE Spec2Model ----
(***************************************************************************)
(* Model of the jyserver command bridge (src/jyserver/__init__.py): the    *)
(* per-session Task Queue, the Pending-Query table, the Concurrency Guard, *)
(* the JSchain expression builder with its flush paths, the Command        *)
(* Dispatcher's `next`, `state` and `run` tasks, and the page's script.    *)
(*                                                                         *)
(* Spec       one session: a backend thread ("main"), one page with its    *)
(*            poll loop and its blocking `run` requests, and the request   *)
(*            thread that serves them.                                     *)
(* FairSpec   Spec with the request thread scheduled fairly.                *)
(* FairEval   Spec with every wait of an eval coming to its end.           *)
(* SpecQueue  one session's Task Queue: two backend threads calling        *)
(*            addTask, two pages polling with `next` requests.             *)
(* SpecWire   the wire encoding: a value assigned to a remote property     *)
(*            and read back.                                               *)
(* SpecDispatch  the Command Dispatcher serving two requests at a time:    *)
(*            every task of processCommand, with run, get and set.         *)
(* SpecPages  the page table of HtmlPage under a clock: render, last       *)
(*            activity, unload and expiry, one request at a time.          *)
(* SpecUnload  processCommand in its steps: an unload racing with another  *)
(*            request of the same page.                                    *)
(* SpecSession  _getContextForPage: two requests resolving a session id.   *)
(* SpecItem   index assignment, membership test and index read on a remote *)
(*            object or array.                                             *)
(* SpecLazy   a chain stored in a variable, statements flushed after it,   *)
(*            and its consumption; two pages polling.                      *)
(* SpecRegistry  callables assigned to remote properties and _callfxn.     *)
(* SpecPoll, FairPoll  the page's poll loop with statements that throw.    *)
(* SpecNext   `next` requests waiting on the Task Queue under a clock.     *)
(* SpecChain  the statement text of a chain: reads, calls and a closing    *)
(*            assignment over plain names, `dom` and `__iter__`.           *)
(* SpecBound  the size of the Task Queue: two threads in addTask, unload   *)
(*            requests putting the end marker, one page polling.           *)
(* SpecShow   showPage: page requests waiting on the render signal.        *)
(* SpecInject  insertJS as a function of the document.                     *)
(***************************************************************************)
EXTENDS Integers, Sequences, FiniteSets, TLC

\* ------------------------------------------------------------------ sizes
\* addTask: `if self.tasks.qsize() < 5`
QueueLimit == 5
\* addTask: `for _ in range(10)`
AddAttempts == 10
\* number of synchronous evaluations (addQuery calls) explored
MaxQueries == 1
\* longest chain (in fragments) explored
MaxFragments == 5

Pages == {"p1"}
Threads == {"main"} \cup Pages

\* values the remote side reports; 0 is also eval's default
RemoteValues == {7}

VARIABLES
    tasks,      \* ClientContext.tasks, the session's queue.Queue of statements
    queries,    \* ClientContext.queries: query id (1, 2, ...) -> queue.Queue of reports
    lock,       \* ClientContext.lock: "free", or the page whose run holds it
    error,      \* ClientContext._error
    inbox,      \* per page: the statement its poll received, not yet evaluated
    req,        \* per page: its blocking run request ("none", "sent", "running")
    pc,         \* per thread: where it is in the backend code
    chain,      \* per thread: JSchain.chain of the chain it holds
    keep,       \* per thread: JSchain.keep of the chain it holds
    att,        \* per thread: failed attempts of the addTask in progress
    qid,        \* per thread: idx of the eval in progress
    pend,       \* per thread: the statement the addTask in progress is adding
    hres,       \* per request thread: outcome of ClientContext.run
    op,         \* per thread: what its latest chain operation did
    fl,         \* per thread: what was enqueued/registered for its chain so far
    calls,      \* SpecQueue: one record per addTask call, in call order
    putLog,     \* SpecQueue: the statements in the order of tasks.put
    got,        \* SpecQueue: the statements whose `next` response reached a page
    last,       \* SpecQueue: per page, the statement it received last (0: none)
    wire,       \* SpecWire: a value assigned to a remote property and read back
    pageMap,    \* HtmlPage.pageMap: page id -> session id
    pageActive, \* HtmlPage.pageActive: page id -> time of its last request
    now,        \* SpecDispatch: time.time()
    issued,     \* SpecDispatch: the page ids uuid1 has produced
    contextMap, \* ClientContext.contextMap: session id -> context
    contexts    \* SpecSession: the contexts created so far, in order

vars == <<tasks, queries, lock, error, inbox, req,
          pc, chain, keep, att, qid, pend, hres, op, fl,
          calls, putLog, got, last, wire, pageMap, pageActive, now, issued,
          contextMap, contexts>>

\* what the one-session model of the bridge leaves alone
history == <<calls, putLog, got, last, wire, pageMap, pageActive, now, issued,
            contextMap, contexts>>

\* the session table
sessions == <<contextMap, contexts>>

\* the page table and the clock
pagetable == <<pageMap, pageActive, now, issued>>

\* what the dispatcher model leaves alone
others == <<inbox, chain, keep, att, qid, pend, op, fl, calls, putLog, got, last, wire,
            contextMap, contexts>>

remote == <<inbox, req>>

NoTask == [kind |-> "none", stmt |-> <<>>, query |-> 0]

\* JSchain._statement: ''.join(self.chain); kept as the fragment list
Statement(c) == c

\* JSchain.eval: cmd = "sendFromBrowserToServer({}, {})".format(data, idx)
Wrapper(c, idx) == [kind |-> "wrapper", stmt |-> Statement(c), query |-> idx]

\* JSchain.evalAsync: the statement itself
Plain(c) == [kind |-> "plain", stmt |-> Statement(c), query |-> 0]

\* JSchain.setdata with attr None (JSroot.__setattr__): _add("=" + json.dumps(value))
SetData(c) == c \o <<"=1">>

\* execExpression's `self._addTask(stmt)`: JSchain has no _addTask, so
\* __getattr__ appends the name to the chain and __call__ appends the argument
MissingAddTask(c) == c \o <<".", "_addTask", "(stmt)">>

NoReport == [error |-> "", hasValue |-> FALSE, value |-> 0]

\* What a chain operation did, for the properties below:
\*   name    the operation ("new", "eval", "async", "assign", "del")
\*   kept    the chain's pending flag when the operation began
\*   guard   the guard's state when the operation began
\*   nq, q   how many queries it registered (addQuery), and the last id
\*   enq     the statements it put on the Task Queue
\*   gaveUp  its addTask ran out of attempts
\*   waited  it blocked on a query's rendezvous queue
\*   read, rep   it read a report from that queue, and the report
\*   out     "run" while in progress, then "ret" or "raise"
\*   val, err    the value returned, the exception raised
NoOp == [name |-> "none", kept |-> FALSE, guard |-> "n/a", nq |-> 0, q |-> 0,
         enq |-> <<>>, gaveUp |-> FALSE, waited |-> FALSE, read |-> FALSE,
         rep |-> NoReport, out |-> "ret", val |-> 0, err |-> ""]

GuardNow(l) == IF l = "free" THEN "free" ELSE "held"

StartOp(n, k, g) == [NoOp EXCEPT !.name = n, !.kept = k, !.guard = g, !.out = "run"]

NoFlush == [enq |-> 0, nq |-> 0]

Sat(n) == IF n < 2 THEN n + 1 ELSE 2

\* ------------------------------------------------------- queue and guard
\* addTask: self.tasks.qsize() < 5
\* (variants: a size test that never finds room; one that lets one more in)
HasRoomNever(q) == FALSE

HasRoomOneMore(q) == Len(q) < QueueLimit + 1

HasRoom(q) == Len(q) < QueueLimit

\* queue.Queue.put
\* (variants: a queue that puts at the front; a put that loses the item)
PutFront(q, x) == <<x>> \o q

PutLost(q, x) == q

Put(q, x) == Append(q, x)

\* queue.Queue.get: the item returned, and what is left
GetItem(q) == Head(q)
GetRest(q) == Tail(q)

\* the pending test of every flush path: `if self.keep` / `if not self.keep`
\* (variant: a flush path that does not look at the flag)
PendingAlways(k) == TRUE

Pending(k) == k

\* JSchain.eval: c.lock.locked()
\* (variants: eval without the guard check; eval with the check inverted)
EvalLockedNever(l) == FALSE

EvalLockedInverted(l) == l = "free"

EvalLocked(l) == l # "free"

\* JSchain.execExpression: self.state.lock.locked()
\* (variant: execExpression that always takes the guarded branch)
ExecLockedAlways(l) == TRUE

ExecLocked(l) == l # "free"

\* JSchain.eval: result["error"] != ""
\* (variant: eval that ignores the report's error)
ResultFailedNever(r) == FALSE

ResultFailed(r) == r.error # ""

\* JSchain.eval: result["value"] if "value" in result else 0
\* (variant: eval that always returns the default)
EvalValueDefault(r) == 0

EvalValue(r) == IF r.hasValue THEN r.value ELSE 0

\* ------------------------------------------------ leaving a chain operation
\* The operation returns to the backend code that used the chain; a chain that
\* reached its end of life (__del__) is gone afterwards.
Return(t, o, c) ==
    /\ op' = [op EXCEPT ![t] = [o EXCEPT !.out = "ret"]]
    /\ hres' = hres
    /\ IF o.name = "del"
         THEN /\ pc' = [pc EXCEPT ![t] = "idle"]
              /\ chain' = [chain EXCEPT ![t] = <<>>]
         ELSE /\ pc' = [pc EXCEPT ![t] = "chain"]
              /\ chain' = [chain EXCEPT ![t] = c]

\* The operation raises o.err. __del__ stores the exception in the session's
\* error slot (the interpreter ignores what __del__ raises); elsewhere the
\* backend code catches it, or (in a request thread) ClientContext.run does.
Raise(t, o, c) ==
    /\ op' = [op EXCEPT ![t] = [o EXCEPT !.out = "raise"]]
    /\ IF o.name = "del"
         THEN /\ error' = o.err
              /\ pc' = [pc EXCEPT ![t] = "idle"]
              /\ chain' = [chain EXCEPT ![t] = <<>>]
              /\ hres' = hres
         ELSE /\ error' = error
              /\ \E caught \in (IF t \in Pages THEN BOOLEAN ELSE {TRUE}) :
                    IF caught
                      THEN /\ pc' = [pc EXCEPT ![t] = "chain"]
                           /\ chain' = [chain EXCEPT ![t] = c]
                           /\ hres' = hres
                      ELSE /\ pc' = [pc EXCEPT ![t] = "ret"]
                           /\ chain' = [chain EXCEPT ![t] = <<>>]
                           /\ hres' = [hres EXCEPT ![t] = "error"]

\* ------------------------------------------------------------ JSroot
\* JSroot.__getattr__: `if self.state._error:`
HasErrorNever(e) == FALSE

HasError(e) == e # "None"

\* JSroot.__getattr__: raise the stored error, or start a chain
NewChain(t) ==
    /\ pc[t] = "idle"
    /\ IF HasError(error)
         THEN /\ error' = "None"
              /\ op' = [op EXCEPT ![t] =
                          [StartOp("new", FALSE, "n/a") EXCEPT !.out = "raise", !.err = error]]
              /\ \E caught \in (IF t \in Pages THEN BOOLEAN ELSE {TRUE}) :
                    IF caught
                      THEN pc' = pc /\ hres' = hres
                      ELSE /\ pc' = [pc EXCEPT ![t] = "ret"]
                           /\ hres' = [hres EXCEPT ![t] = "error"]
              /\ UNCHANGED <<chain, keep, fl>>
         ELSE /\ chain' = [chain EXCEPT ![t] = <<"x">>]
              /\ keep' = [keep EXCEPT ![t] = TRUE]
              /\ pc' = [pc EXCEPT ![t] = "chain"]
              /\ op' = [op EXCEPT ![t] = [StartOp("new", FALSE, "n/a") EXCEPT !.out = "ret"]]
              /\ fl' = [fl EXCEPT ![t] = NoFlush]
              /\ UNCHANGED <<error, hres>>
    /\ UNCHANGED <<tasks, queries, lock, remote, att, qid, pend>>
    /\ UNCHANGED history

\* ------------------------------------------------------------ JSchain.eval
\* lines 1265-1283: the pending flag, the guard check, addQuery, and the call
\* of addTask (whose loop is AddCheck/AddPut); o is the operation's record
EvalBody(t, o) ==
    IF ~Pending(keep[t])
      THEN /\ Return(t, [o EXCEPT !.val = 0], chain[t])
           /\ UNCHANGED <<tasks, queries, lock, error, remote, keep, att, qid, pend, fl>>
      ELSE /\ keep' = [keep EXCEPT ![t] = FALSE]
           /\ IF EvalLocked(lock)
                THEN /\ Raise(t, [o EXCEPT !.err = "RuntimeError: App is active"], chain[t])
                     /\ UNCHANGED <<tasks, queries, lock, remote, att, qid, pend, fl>>
                ELSE /\ Len(queries) < MaxQueries
                     /\ queries' = Append(queries, <<>>)
                     /\ qid' = [qid EXCEPT ![t] = Len(queries) + 1]
                     /\ pend' = [pend EXCEPT ![t] = Wrapper(chain[t], Len(queries) + 1)]
                     /\ att' = [att EXCEPT ![t] = 0]
                     /\ pc' = [pc EXCEPT ![t] = "addchk"]
                     /\ op' = [op EXCEPT ![t] = [o EXCEPT !.nq = @ + 1, !.q = Len(queries) + 1]]
                     /\ fl' = [fl EXCEPT ![t].nq = Sat(@)]
                     /\ UNCHANGED <<tasks, lock, error, remote, chain, hres>>

\* a value is consumed (a magic method, JSroot._v, or an explicit eval())
Eval(t) ==
    /\ pc[t] = "chain"
    /\ EvalBody(t, StartOp("eval", keep[t], GuardNow(lock)))
    /\ UNCHANGED history

\* execExpression, guard seen free: `self.eval()` inside its try
ExecEval(t) ==
    /\ pc[t] = "exec"
    /\ EvalBody(t, op[t])
    /\ UNCHANGED history

\* ------------------------------------------------------ ClientContext.addTask
\* addTask returned: evalAsync clears the flag, eval goes on to q.get
AfterAdd(t, o) ==
    IF o.name = "async"
      THEN /\ keep' = [keep EXCEPT ![t] = FALSE]
           /\ Return(t, o, chain[t])
      ELSE /\ keep' = keep
           /\ pc' = [pc EXCEPT ![t] = "wait"]
           /\ op' = [op EXCEPT ![t] = [o EXCEPT !.waited = TRUE]]
           /\ UNCHANGED <<chain, hres>>

\* one pass of the loop: the size test, then either the put (AddPut) or the
\* sleep; after the last failed pass the error slot is set and addTask returns
AddCheck(t) ==
    /\ pc[t] = "addchk"
    /\ IF HasRoom(tasks)
         THEN /\ pc' = [pc EXCEPT ![t] = "addput"]
              /\ UNCHANGED <<error, att, pend, keep, chain, hres, op>>
         ELSE IF att[t] + 1 < AddAttempts
           THEN /\ att' = [att EXCEPT ![t] = @ + 1]
                /\ UNCHANGED <<error, pc, pend, keep, chain, hres, op>>
           ELSE /\ error' = "TimeoutError: inserting task"
                /\ att' = [att EXCEPT ![t] = 0]
                /\ pend' = [pend EXCEPT ![t] = NoTask]
                /\ AfterAdd(t, [op[t] EXCEPT !.gaveUp = TRUE])
    /\ UNCHANGED <<tasks, queries, lock, remote, qid, fl>>
    /\ UNCHANGED history

AddPut(t) ==
    /\ pc[t] = "addput"
    /\ tasks' = Put(tasks, pend[t])
    /\ fl' = [fl EXCEPT ![t].enq = Sat(@)]
    /\ att' = [att EXCEPT ![t] = 0]
    /\ pend' = [pend EXCEPT ![t] = NoTask]
    /\ AfterAdd(t, [op[t] EXCEPT !.enq = Append(@, pend[t])])
    /\ UNCHANGED <<queries, lock, error, remote, qid>>
    /\ UNCHANGED history

\* ------------------------------------------------- JSchain.eval, lines 1284-1297
\* q.get returned a report
EvalResult(t) ==
    /\ pc[t] = "wait"
    /\ queries[qid[t]] # <<>>
    /\ LET result == GetItem(queries[qid[t]]) IN
         /\ queries' = [queries EXCEPT ![qid[t]] = GetRest(@)]
         /\ IF ResultFailed(result)
              THEN Raise(t, [op[t] EXCEPT !.read = TRUE, !.rep = result,
                                          !.err = "RuntimeError: remote"], chain[t])
              ELSE /\ Return(t, [op[t] EXCEPT !.read = TRUE, !.rep = result,
                                               !.val = EvalValue(result)], chain[t])
                   /\ error' = error
    /\ qid' = [qid EXCEPT ![t] = 0]
    /\ UNCHANGED <<tasks, lock, remote, keep, att, pend, fl>>
    /\ UNCHANGED history

\* q.get(timeout=timeout): queue.Empty once the timeout has passed with
\* nothing in the queue
GetBlocksForever(q) == FALSE

GetTimesOut(q) == q = <<>>

\* q.get(timeout=timeout) raised queue.Empty
EvalTimeout(t) ==
    /\ pc[t] = "wait"
    /\ GetTimesOut(queries[qid[t]])
    /\ Raise(t, [op[t] EXCEPT !.err = "TimeoutError: waiting"], chain[t])
    /\ qid' = [qid EXCEPT ![t] = 0]
    /\ UNCHANGED <<tasks, queries, lock, remote, keep, att, pend, fl>>
    /\ UNCHANGED history

\* ------------------------------------------------------------ JSchain.evalAsync
EvalAsync(t) ==
    /\ pc[t] = "chain"
    /\ IF Pending(keep[t])
         THEN /\ pend' = [pend EXCEPT ![t] = Plain(chain[t])]
              /\ att' = [att EXCEPT ![t] = 0]
              /\ pc' = [pc EXCEPT ![t] = "addchk"]
              /\ op' = [op EXCEPT ![t] = StartOp("async", TRUE, "n/a")]
              /\ UNCHANGED <<chain, hres>>
         ELSE /\ Return(t, StartOp("async", FALSE, "n/a"), chain[t])
              /\ UNCHANGED <<pend, att>>
    /\ UNCHANGED <<tasks, queries, lock, error, remote, keep, qid, fl>>
    /\ UNCHANGED history

\* ------------------------------------------------------ JSchain.execExpression
\* o is the record of the assignment or end-of-life that flushes chain c
ExecExpression(t, o, c) ==
    IF ~Pending(keep[t])
      THEN /\ Return(t, o, c)
           /\ keep' = keep
      ELSE IF ExecLocked(lock)
        THEN /\ Return(t, o, MissingAddTask(c))
             /\ keep' = [keep EXCEPT ![t] = FALSE]
        ELSE /\ Len(queries) < MaxQueries
             /\ pc' = [pc EXCEPT ![t] = "exec"]
             /\ chain' = [chain EXCEPT ![t] = c]
             /\ op' = [op EXCEPT ![t] = o]
             /\ UNCHANGED <<keep, hres>>

\* JSchain.__setattr__ / JSroot.__setattr__: setdata, then execExpression
Assign(t) ==
    /\ pc[t] = "chain"
    /\ Len(chain[t]) + 4 <= MaxFragments
    /\ ExecExpression(t, StartOp("assign", keep[t], GuardNow(lock)),
                      SetData(chain[t]))
    /\ UNCHANGED <<tasks, queries, lock, error, remote, att, qid, pend, fl>>
    /\ UNCHANGED history

\* JSchain.__del__
Del(t) ==
    /\ pc[t] = "chain"
    /\ ExecExpression(t, StartOp("del", keep[t], GuardNow(lock)),
                      chain[t])
    /\ UNCHANGED <<tasks, queries, lock, error, remote, att, qid, pend, fl>>
    /\ UNCHANGED history

\* ------------------------------------------------------------ the page's script
\* task "next": ClientContext.getNextTask, self.tasks.get
PollNext(p) ==
    /\ inbox[p] = NoTask
    /\ tasks # <<>>
    /\ inbox' = [inbox EXCEPT ![p] = GetItem(tasks)]
    /\ tasks' = GetRest(tasks)
    /\ UNCHANGED <<queries, lock, error, req, pc, chain, keep, att, qid, pend, hres, op, fl>>
    /\ UNCHANGED history

\* the statement being evaluated calls app.f(...): handleApp's blocking request
BrowserCall(p) ==
    /\ inbox[p] # NoTask
    /\ req[p] = "none"
    /\ req' = [req EXCEPT ![p] = "sent"]
    /\ UNCHANGED <<tasks, queries, lock, error, inbox, pc, chain, keep, att, qid, pend, hres, op, fl>>
    /\ UNCHANGED history

\* evalBrowser's eval(request.responseText) of a plain statement
BrowserExec(p) ==
    /\ inbox[p].kind = "plain"
    /\ req[p] = "none"
    /\ inbox' = [inbox EXCEPT ![p] = NoTask]
    /\ UNCHANGED <<tasks, queries, lock, error, req, pc, chain, keep, att, qid, pend, hres, op, fl>>
    /\ UNCHANGED history

\* what sendFromBrowserToServer posts: the value of the expression, no value
\* (JSON.stringify drops an undefined one), or the message of what it threw
Reports ==
    [error : {""}, hasValue : {TRUE}, value : RemoteValues]
      \cup {[error |-> "", hasValue |-> FALSE, value |-> 0],
            [error |-> "E", hasValue |-> TRUE, value |-> 0]}

\* The page evaluates a wrapper statement (sendFromBrowserToServer) and the
\* dispatcher processes the `state` request it posts:
\* q = self.getQuery(req['query']); q.put(req).  Nothing else reads a report
\* on its way, so the post and its processing are one step.
StateRequest(p) ==
    /\ inbox[p].kind = "wrapper"
    /\ req[p] = "none"
    /\ inbox' = [inbox EXCEPT ![p] = NoTask]
    /\ \E r \in Reports : queries' = [queries EXCEPT ![inbox[p].query] = Put(@, r)]
    /\ UNCHANGED <<tasks, lock, error, req, pc, chain, keep, att, qid, pend, hres, op, fl>>
    /\ UNCHANGED history

\* ------------------------------------------------------------ ClientContext.run
\* task "run": lock.acquire(blocking=False)
RunBegin(p) ==
    /\ req[p] = "sent"
    /\ lock = "free"
    /\ lock' = p
    /\ req' = [req EXCEPT ![p] = "running"]
    /\ pc' = [pc EXCEPT ![p] = "resolve"]
    /\ UNCHANGED <<tasks, queries, error, inbox, chain, keep, att, qid, pend, hres, op, fl>>
    /\ UNCHANGED history

\* lines 495-518: find the function; call it, or answer "Unsupported",
\* or raise KeyError for an id that is not in self.fxn
RunResolve(p) ==
    /\ pc[p] = "resolve"
    /\ \E found \in {"found", "missing", "badid"} :
         /\ pc' = [pc EXCEPT ![p] = IF found = "found" THEN "idle" ELSE "ret"]
         /\ hres' = [hres EXCEPT ![p] = CASE found = "found" -> "none"
                                           [] found = "missing" -> "error"
                                           [] OTHER -> "raise"]
    /\ UNCHANGED <<tasks, queries, lock, error, remote, chain, keep, att, qid, pend, op, fl>>
    /\ UNCHANGED history

\* the function returns: ret = json.dumps({"value": ...})
RunReturn(p) ==
    /\ pc[p] = "idle"
    /\ pc' = [pc EXCEPT ![p] = "ret"]
    /\ hres' = [hres EXCEPT ![p] = "value"]
    /\ UNCHANGED <<tasks, queries, lock, error, remote, chain, keep, att, qid, pend, op, fl>>
    /\ UNCHANGED history

\* finally: self.lock.release(); the response unblocks the page
RunEnd(p) ==
    /\ pc[p] = "ret"
    /\ lock' = "free"
    /\ req' = [req EXCEPT ![p] = "none"]
    /\ pc' = [pc EXCEPT ![p] = "off"]
    /\ hres' = [hres EXCEPT ![p] = "none"]
    /\ op' = [op EXCEPT ![p] = NoOp]
    /\ fl' = [fl EXCEPT ![p] = NoFlush]
    /\ UNCHANGED <<tasks, queries, error, inbox, chain, keep, att, qid, pend>>
    /\ UNCHANGED history

\* ------------------------------------------------------------ specification
Init ==
    /\ tasks = <<>>
    /\ queries = <<>>
    /\ lock = "free"
    /\ error = "None"
    /\ inbox = [p \in Pages |-> NoTask]
    /\ req = [p \in Pages |-> "none"]
    /\ pc = [t \in Threads |-> IF t = "main" THEN "idle" ELSE "off"]
    /\ chain = [t \in Threads |-> <<>>]
    /\ keep = [t \in Threads |-> FALSE]
    /\ att = [t \in Threads |-> 0]
    /\ qid = [t \in Threads |-> 0]
    /\ pend = [t \in Threads |-> NoTask]
    /\ hres = [t \in Threads |-> "none"]
    /\ op = [t \in Threads |-> NoOp]
    /\ fl = [t \in Threads |-> NoFlush]
    /\ calls = <<>>
    /\ putLog = <<>>
    /\ got = {}
    /\ last = <<>>
    /\ wire = <<>>
    /\ pageMap = <<>>
    /\ pageActive = <<>>
    /\ now = 0
    /\ issued = {}
    /\ contextMap = <<>>
    /\ contexts = <<>>

Backend(t) ==
    \/ NewChain(t)
    \/ Eval(t)
    \/ ExecEval(t)
    \/ EvalAsync(t)
    \/ Assign(t)
    \/ Del(t)
    \/ AddCheck(t)
    \/ AddPut(t)
    \/ EvalResult(t)
    \/ EvalTimeout(t)

Next ==
    \/ \E t \in Threads : Backend(t)
    \/ \E p \in Pages : PollNext(p)
    \/ \E p \in Pages : BrowserCall(p)
    \/ \E p \in Pages : BrowserExec(p)
    \/ \E p \in Pages : StateRequest(p)
    \/ \E p \in Pages : RunBegin(p)
    \/ \E p \in Pages : RunResolve(p)
    \/ \E p \in Pages : RunReturn(p)
    \/ \E p \in Pages : RunEnd(p)

Spec == Init /\ [][Next]_vars

\* ------------------------------------------------------------ SpecQueue
\* One session's Task Queue (ClientContext.tasks, created per session in
\* __init__): backend threads a and b call addTask, and two pages of the
\* session poll it with `next` requests.  The statement of the i-th addTask
\* call is the number i.
Producers == {"a", "b"}
QPages == {"p1", "p2"}

\* addTask calls explored
MaxStmts == 6

\* a backend thread calls ClientContext.addTask(stmt)
AddTask(t) ==
    /\ pc[t] = "idle"
    /\ Len(calls) < MaxStmts
    /\ calls' = Append(calls, [status |-> "adding", fails |-> 0])
    /\ pend' = [pend EXCEPT ![t] = Len(calls) + 1]
    /\ att' = [att EXCEPT ![t] = 0]
    /\ pc' = [pc EXCEPT ![t] = "addchk"]
    /\ UNCHANGED <<tasks, error, inbox, putLog, got, last>>
    /\ UNCHANGED <<queries, lock, req, chain, keep, qid, hres, op, fl, wire>>
    /\ UNCHANGED pagetable
    /\ UNCHANGED sessions

\* one pass of addTask's loop: `if self.tasks.qsize() < 5`, else sleep; after
\* the last pass `self._error = TimeoutError(...)` and the call returns.
\* The record of a call that gives up keeps how many passes found the queue
\* full.
AddTaskCheck(t) ==
    /\ pc[t] = "addchk"
    /\ IF HasRoom(tasks)
         THEN /\ pc' = [pc EXCEPT ![t] = "addput"]
              /\ UNCHANGED <<att, pend, error, calls>>
         ELSE IF att[t] + 1 < AddAttempts
           THEN /\ att' = [att EXCEPT ![t] = @ + 1]
                /\ UNCHANGED <<pc, pend, error, calls>>
           ELSE /\ error' = "TimeoutError: inserting task"
                /\ calls' = [calls EXCEPT ![pend[t]] = [status |-> "dropped",
                                                        fails |-> att[t] + 1]]
                /\ att' = [att EXCEPT ![t] = 0]
                /\ pend' = [pend EXCEPT ![t] = 0]
                /\ pc' = [pc EXCEPT ![t] = "idle"]
    /\ UNCHANGED <<tasks, inbox, putLog, got, last>>
    /\ UNCHANGED <<queries, lock, req, chain, keep, qid, hres, op, fl, wire>>
    /\ UNCHANGED pagetable
    /\ UNCHANGED sessions

\* addTask: self.tasks.put(stmt); return
AddTaskPut(t) ==
    /\ pc[t] = "addput"
    /\ tasks' = Put(tasks, pend[t])
    /\ putLog' = Append(putLog, pend[t])
    /\ calls' = [calls EXCEPT ![pend[t]].status = "put"]
    /\ att' = [att EXCEPT ![t] = 0]
    /\ pend' = [pend EXCEPT ![t] = 0]
    /\ pc' = [pc EXCEPT ![t] = "idle"]
    /\ UNCHANGED <<error, inbox, got, last>>
    /\ UNCHANGED <<queries, lock, req, chain, keep, qid, hres, op, fl, wire>>
    /\ UNCHANGED pagetable
    /\ UNCHANGED sessions

\* task "next" of page p: getNextTask's self.tasks.get returns a statement;
\* the response carrying it is on its way to the page.  (On queue.Empty the
\* request returns None and the page polls again: nothing changes.)
GetNextTask(p) ==
    /\ inbox[p] = 0
    /\ tasks # <<>>
    /\ inbox' = [inbox EXCEPT ![p] = GetItem(tasks)]
    /\ tasks' = GetRest(tasks)
    /\ UNCHANGED <<error, pc, att, pend, calls, putLog, got, last>>
    /\ UNCHANGED <<queries, lock, req, chain, keep, qid, hres, op, fl, wire>>
    /\ UNCHANGED pagetable
    /\ UNCHANGED sessions

\* the response reaches the page (evalBrowser's onreadystatechange), which
\* evaluates the statement and polls again
NextResponse(p) ==
    /\ inbox[p] # 0
    /\ got' = got \cup {inbox[p]}
    /\ last' = [last EXCEPT ![p] = inbox[p]]
    /\ inbox' = [inbox EXCEPT ![p] = 0]
    /\ UNCHANGED <<tasks, error, pc, att, pend, calls, putLog>>
    /\ UNCHANGED <<queries, lock, req, chain, keep, qid, hres, op, fl, wire>>
    /\ UNCHANGED pagetable
    /\ UNCHANGED sessions

QueueInit ==
    /\ tasks = <<>>
    /\ error = "None"
    /\ pc = [t \in Producers |-> "idle"]
    /\ att = [t \in Producers |-> 0]
    /\ pend = [t \in Producers |-> 0]
    /\ inbox = [p \in QPages |-> 0]
    /\ calls = <<>>
    /\ putLog = <<>>
    /\ got = {}
    /\ last = [p \in QPages |-> 0]
    /\ queries = <<>>
    /\ lock = "free"
    /\ req = <<>>
    /\ chain = <<>>
    /\ keep = <<>>
    /\ qid = <<>>
    /\ hres = <<>>
    /\ op = <<>>
    /\ fl = <<>>
    /\ wire = <<>>
    /\ pageMap = <<>>
    /\ pageActive = <<>>
    /\ now = 0
    /\ issued = {}
    /\ contextMap = <<>>
    /\ contexts = <<>>

QueueNext ==
    \/ \E t \in Producers : AddTask(t)
    \/ \E t \in Producers : AddTaskCheck(t)
    \/ \E t \in Producers : AddTaskPut(t)
    \/ \E p \in QPages : GetNextTask(p)
    \/ \E p \in QPages : NextResponse(p)

SpecQueue == QueueInit /\ [][QueueNext]_vars

\* ------------------------------------------------------------ SpecWire
\* The path of a value v through `self.js.x = v` and a read of `self.js.x`:
\* setdata's json.dumps(v), the page's eval of the statement `x=<json>`, the
\* page's eval of `x` and JSON.stringify of the report, the server's
\* json.loads of the request.
\*
\* A Python scalar is [t, n, s] with t one of "int", "float", "str", "bool",
\* "none"; a float carries twice its value in n (1.5 is 3).  A Python value
\* is a scalar with items = <<>>, a "list" whose items are scalars, or a
\* "dict" whose items are entries [k, v] in insertion order.
\* JSON text and JavaScript values are trees of the same shape with their
\* own types; their numbers carry twice their value.

\* longest list or mapping explored
MaxLen == 2

PyInt(k) == [t |-> "int", n |-> k, s |-> ""]
PyFloat(h) == [t |-> "float", n |-> h, s |-> ""]
PyStr(x) == [t |-> "str", n |-> 0, s |-> x]
PyBool(b) == [t |-> "bool", n |-> IF b THEN 1 ELSE 0, s |-> ""]
PyNone == [t |-> "none", n |-> 0, s |-> ""]

Whole(x, t, items) == [t |-> t, n |-> x.n, s |-> x.s, items |-> items]
Part(v) == [t |-> v.t, n |-> v.n, s |-> v.s]

\* str(int) for the integers used as keys
IntStr(k) == CASE k = 5 -> "5" [] k = 9 -> "9"

\* json.dumps: keys of a mapping are written as strings
KeyStr(k) == IF k.t = "str" THEN k.s ELSE IntStr(k.n)

\* json.dumps of a scalar
DumpsScalar(x) ==
    CASE x.t = "int" -> [t |-> "number", n |-> 2 * x.n, s |-> ""]
      [] x.t = "float" -> [t |-> "number", n |-> x.n, s |-> ""]
      [] x.t = "str" -> [t |-> "string", n |-> 0, s |-> x.s]
      [] x.t = "bool" -> [t |-> IF x.n = 1 THEN "true" ELSE "false", n |-> 0, s |-> ""]
      [] x.t = "none" -> [t |-> "null", n |-> 0, s |-> ""]

\* setdata: json.dumps(value)
Dumps(v) ==
    CASE v.t = "list" ->
           Whole(PyNone, "array", [i \in 1..Len(v.items) |-> DumpsScalar(v.items[i])])
      [] v.t = "dict" ->
           Whole(PyNone, "object",
                 [i \in 1..Len(v.items) |-> [k |-> KeyStr(v.items[i].k),
                                             v |-> DumpsScalar(v.items[i].v)]])
      [] OTHER -> Whole(DumpsScalar(Part(v)), DumpsScalar(Part(v)).t, <<>>)

\* the page evaluates a literal: one JavaScript value per JSON token
JsScalar(j) ==
    CASE j.t \in {"true", "false"} ->
           [t |-> "boolean", n |-> IF j.t = "true" THEN 1 ELSE 0, s |-> ""]
      [] OTHER -> j

\* (variant: an object literal whose first duplicate key wins)
RECURSIVE ObjectOfFirst(_)
ObjectOfFirst(es) ==
    IF es = <<>> THEN <<>>
    ELSE LET init == ObjectOfFirst(SubSeq(es, 1, Len(es) - 1))
             e == es[Len(es)]
         IN IF \E i \in 1..Len(init) : init[i].k = e.k THEN init ELSE Append(init, e)

\* an object literal: a repeated key overwrites the property
RECURSIVE ObjectOf(_)
ObjectOf(es) ==
    IF es = <<>> THEN <<>>
    ELSE LET init == ObjectOf(SubSeq(es, 1, Len(es) - 1))
             e == es[Len(es)]
         IN IF \E i \in 1..Len(init) : init[i].k = e.k
              THEN [i \in 1..Len(init) |-> IF init[i].k = e.k THEN e ELSE init[i]]
              ELSE Append(init, e)

\* sendFromBrowserToServer: value = eval(expression), for `x=<json>`
JsEval(j) ==
    CASE j.t = "array" ->
           Whole(PyNone, "array", [i \in 1..Len(j.items) |-> JsScalar(j.items[i])])
      [] j.t = "object" ->
           Whole(PyNone, "object",
                 ObjectOf([i \in 1..Len(j.items) |-> [k |-> j.items[i].k,
                                                      v |-> JsScalar(j.items[i].v)]]))
      [] OTHER -> Whole(JsScalar(Part(j)), JsScalar(Part(j)).t, <<>>)

\* JSON.stringify of a scalar
StringifyScalar(x) ==
    CASE x.t = "boolean" -> [t |-> IF x.n = 1 THEN "true" ELSE "false", n |-> 0, s |-> ""]
      [] OTHER -> x

\* sendFromBrowserToServer: JSON.stringify({..., "value": value, ...})
Stringify(js) ==
    CASE js.t = "array" ->
           Whole(PyNone, "array", [i \in 1..Len(js.items) |-> StringifyScalar(js.items[i])])
      [] js.t = "object" ->
           Whole(PyNone, "object",
                 [i \in 1..Len(js.items) |-> [k |-> js.items[i].k,
                                              v |-> StringifyScalar(js.items[i].v)]])
      [] OTHER -> Whole(StringifyScalar(Part(js)), StringifyScalar(Part(js)).t, <<>>)

\* json.loads of a scalar: a number without a fraction is an int
LoadsScalar(j) ==
    CASE j.t = "number" -> IF j.n % 2 = 0 THEN PyInt(j.n \div 2) ELSE PyFloat(j.n)
      [] j.t = "string" -> PyStr(j.s)
      [] j.t = "true" -> PyBool(TRUE)
      [] j.t = "false" -> PyBool(FALSE)
      [] j.t = "null" -> PyNone

\* the request handler's json.loads; eval returns result["value"]
Loads(j) ==
    CASE j.t = "array" ->
           Whole(PyNone, "list", [i \in 1..Len(j.items) |-> LoadsScalar(j.items[i])])
      [] j.t = "object" ->
           Whole(PyNone, "dict",
                 [i \in 1..Len(j.items) |-> [k |-> PyStr(j.items[i].k),
                                             v |-> LoadsScalar(j.items[i].v)]])
      [] OTHER -> Whole(LoadsScalar(Part(j)), LoadsScalar(Part(j)).t, <<>>)

\* the values assigned
KeyScalars == {PyInt(5), PyInt(9), PyStr("5"), PyStr("a")}
ItemScalars == {PyInt(-99), PyFloat(3), PyStr("a"), PyNone}
Scalars == KeyScalars \cup ItemScalars \cup {PyFloat(4), PyBool(TRUE), PyBool(FALSE)}

SeqsUpTo(S, n) == UNION {[1..m -> S] : m \in 0..n}

PyLists == {Whole(PyNone, "list", l) : l \in SeqsUpTo(ItemScalars, MaxLen)}

Entries == [k : KeyScalars, v : {PyInt(-99), PyStr("a")}]

\* a dict has no two entries with the same key
PyDicts ==
    {Whole(PyNone, "dict", d) :
        d \in {e \in SeqsUpTo(Entries, MaxLen) :
                  \A i, j \in 1..Len(e) : i # j => e[i].k # e[j].k}}

NoValue == Whole(PyNone, "none", <<>>)

WireStart(v) == wire = [pc |-> "start", v |-> v, remote |-> NoValue, result |-> NoValue]

\* self.js.x = v
WireAssign ==
    /\ wire.pc = "start"
    /\ wire' = [wire EXCEPT !.pc = "assigned", !.remote = JsEval(Dumps(wire.v))]
    /\ UNCHANGED <<tasks, queries, lock, error, inbox, req, pc, chain, keep, att, qid,
                   pend, hres, op, fl, calls, putLog, got, last>>
    /\ UNCHANGED pagetable
    /\ UNCHANGED sessions

\* a synchronous read of self.js.x
WireRead ==
    /\ wire.pc = "assigned"
    /\ wire' = [wire EXCEPT !.pc = "read", !.result = Loads(Stringify(wire.remote))]
    /\ UNCHANGED <<tasks, queries, lock, error, inbox, req, pc, chain, keep, att, qid,
                   pend, hres, op, fl, calls, putLog, got, last>>
    /\ UNCHANGED pagetable
    /\ UNCHANGED sessions

WireInit ==
    /\ \/ \E x \in Scalars : WireStart(Whole(x, x.t, <<>>))
       \/ \E l \in PyLists : WireStart(l)
       \/ \E d \in PyDicts : WireStart(d)
    /\ tasks = <<>>
    /\ queries = <<>>
    /\ lock = "free"
    /\ error = "None"
    /\ inbox = <<>>
    /\ req = <<>>
    /\ pc = <<>>
    /\ chain = <<>>
    /\ keep = <<>>
    /\ att = <<>>
    /\ qid = <<>>
    /\ pend = <<>>
    /\ hres = <<>>
    /\ op = <<>>
    /\ fl = <<>>
    /\ calls = <<>>
    /\ putLog = <<>>
    /\ got = {}
    /\ last = <<>>
    /\ pageMap = <<>>
    /\ pageActive = <<>>
    /\ now = 0
    /\ issued = {}
    /\ contextMap = <<>>
    /\ contexts = <<>>

WireNext ==
    \/ WireAssign
    \/ WireRead

SpecWire == WireInit /\ [][WireNext]_vars

\* ------------------------------------------------------------ SpecDispatch
\* The Command Dispatcher (ClientContext.processCommand) of one session and
\* the page table of HtmlPage.  The server starts a thread per request
\* (ThreadingTCPServer); r1 and r2 are two request threads, each serving one
\* request at a time.  The session has a statement waiting in its Task Queue
\* and one registered query.
Requests == {"r1", "r2"}
PageIds == {"p1", "p2"}

\* HtmlPage.expire: old = time.time() - 5
ExpireAfter == 5

\* the clock stops here
MaxTime == 6

\* `state` reports explored
MaxReports == 1

\* the backend object has a method f and a plain attribute v;
\* ClientContext.fxn holds one registered callback, id 1
Methods == {"f"}
Values == {"v"}
Registered == {1}

NoReq == [session |-> "", task |-> "none", function |-> "", id |-> 0]

\* the requests a page can post (JSCRIPT): function/args of run and async,
\* expression of get, property of set
Posts(task) ==
    CASE task \in {"run", "async"} ->
            [session : PageIds, task : {task}, function : {"f", "nosuch"}, id : {0}]
              \cup [session : PageIds, task : {task}, function : {"_callfxn"}, id : {1, 2}]
      [] task = "get" ->
            [session : PageIds, task : {task}, function : {"f", "v", "nosuch"}, id : {0}]
      [] task = "set" ->
            [session : PageIds, task : {task}, function : {"v"}, id : {0}]
      [] OTHER ->
            [session : PageIds, task : {task}, function : {""}, id : {0}]

\* processCommand line 392: HtmlPage.pageActive[pageid] = time.time()
Touch(active, pg, t) ==
    [k \in DOMAIN active \cup {pg} |-> IF k = pg THEN t ELSE active[k]]

Without(f, ks) == [k \in DOMAIN f \ ks |-> f[k]]

\* HtmlPage.expire: the given page, and every page whose last activity is
\* older than time.time() - 5
Expired(active, item, t) ==
    {item} \cup {k \in DOMAIN active : active[k] < t - ExpireAfter}

\* HtmlPage.alive: self.pageid in self.pageActive
Alive(pg) == pg \in DOMAIN pageActive

\* lock.acquire(blocking=False)
CanAcquireAlways(l) == TRUE

CanAcquire(l) == l = "free"

\* run's `if block:` at the acquire and at the release
BlockingAlways(block) == TRUE

Blocking(block) == block

\* run, lines 495-505: the function a request names
Lookup(function, id) ==
    IF function = "_callfxn"
      THEN IF id \in Registered THEN "call" ELSE "KeyError"
      ELSE IF function \in Methods THEN "call" ELSE "Unsupported"

\* the request thread has its result (or its exception); `finally` of run and
\* get releases the guard the call took
Leave(r, result, release) ==
    /\ pc' = [pc EXCEPT ![r] = "done"]
    /\ hres' = [hres EXCEPT ![r] = result]
    /\ lock' = IF release THEN "free" ELSE lock

\* processCommand line 385: `if pageid in HtmlPage.pageMap`
KnownPageAlways(map, pg) == TRUE

KnownPage(map, pg) == pg \in DOMAIN map

\* lines 384-392 for a page of the map: the request is taken up and the
\* page's last activity is written
Accept(r, rq) ==
    /\ pc[r] = "idle"
    /\ KnownPage(pageMap, rq.session)
    /\ req' = [req EXCEPT ![r] = rq]

\* lines 385-390: a page id that is not in the map
TaskInvalid(r) ==
    /\ pc[r] = "idle"
    /\ \E task \in {"state", "run", "get", "set", "async", "next", "error", "unload"} :
         \E rq \in Posts(task) :
            /\ ~KnownPage(pageMap, rq.session)
            /\ req' = [req EXCEPT ![r] = rq]
    /\ Leave(r, "Invalid pageid session", FALSE)
    /\ UNCHANGED <<tasks, queries, error, pageMap, pageActive, now, issued>>
    /\ UNCHANGED others

\* task "state": q = self.getQuery(req['query']); q.put(req)
TaskState(r) ==
    /\ \E rq \in Posts("state") :
         /\ Accept(r, rq)
         /\ pageActive' = Touch(pageActive, rq.session, now)
    /\ Len(queries[1]) < MaxReports
    /\ queries' = [queries EXCEPT ![1] = Put(@, "report")]
    /\ Leave(r, "str(req)", FALSE)
    /\ UNCHANGED <<tasks, error, pageMap, now, issued>>
    /\ UNCHANGED others

\* ClientContext.run, lines 489-493: a blocking call takes the guard or
\* raises; then the function is looked up
RunEnter(r, rq, block) ==
    /\ Accept(r, rq)
    /\ pageActive' = Touch(pageActive, rq.session, now)
    /\ IF Blocking(block)
         THEN IF CanAcquire(lock)
                THEN /\ lock' = r
                     /\ pc' = [pc EXCEPT ![r] = "lookup"]
                     /\ hres' = hres
                ELSE Leave(r, "raise RuntimeError: would block", FALSE)
         ELSE /\ pc' = [pc EXCEPT ![r] = "lookup"]
              /\ UNCHANGED <<lock, hres>>
    /\ UNCHANGED <<tasks, queries, error, pageMap, now, issued>>
    /\ UNCHANGED others

\* task "run": self.run(req['function'], req['args'])
TaskRun(r) == \E rq \in Posts("run") : RunEnter(r, rq, TRUE)

\* task "async": self.run(req['function'], req['args'], block=False)
TaskAsync(r) == \E rq \in Posts("async") : RunEnter(r, rq, FALSE)

\* run, lines 495-518: the lookup; an unknown name is answered "Unsupported",
\* an id that is not in self.fxn raises KeyError out of run
RunLookup(r) ==
    /\ pc[r] = "lookup"
    /\ LET f == Lookup(req[r].function, req[r].id)
           block == Blocking(req[r].task = "run")
       IN CASE f = "call" ->
                 /\ pc' = [pc EXCEPT ![r] = "call"]
                 /\ UNCHANGED <<lock, hres>>
            [] f = "Unsupported" -> Leave(r, "error: Unsupported", block)
            [] OTHER -> Leave(r, "raise KeyError", block)
    /\ UNCHANGED <<tasks, queries, error, req, pageMap, pageActive, now, issued>>
    /\ UNCHANGED others

\* the function returns or raises: {"value": ...} or {"error": "<type>: ..."}
RunCall(r) ==
    /\ pc[r] = "call"
    /\ \E result \in {"value", "error: exception"} :
         Leave(r, result, Blocking(req[r].task = "run"))
    /\ UNCHANGED <<tasks, queries, error, req, pageMap, pageActive, now, issued>>
    /\ UNCHANGED others

\* task "get": ClientContext.get takes the guard or raises
TaskGet(r) ==
    /\ \E rq \in Posts("get") :
         /\ Accept(r, rq)
         /\ pageActive' = Touch(pageActive, rq.session, now)
    /\ IF CanAcquire(lock)
         THEN /\ lock' = r
              /\ pc' = [pc EXCEPT ![r] = "getattr"]
              /\ hres' = hres
         ELSE Leave(r, "raise RuntimeError: would block", FALSE)
    /\ UNCHANGED <<tasks, queries, error, pageMap, now, issued>>
    /\ UNCHANGED others

\* get, lines 537-544: hasattr/getattr of the backend object
GetAttr(r) ==
    /\ pc[r] = "getattr"
    /\ Leave(r, CASE req[r].function \in Methods -> "expression"
                  [] req[r].function \in Values -> "value"
                  [] OTHER -> "None", TRUE)
    /\ UNCHANGED <<tasks, queries, error, req, pageMap, pageActive, now, issued>>
    /\ UNCHANGED others

\* task "set": ClientContext.set; the guard is not looked at
TaskSet(r) ==
    /\ \E rq \in Posts("set") :
         /\ Accept(r, rq)
         /\ pageActive' = Touch(pageActive, rq.session, now)
    /\ pc' = [pc EXCEPT ![r] = "setattr"]
    /\ UNCHANGED <<tasks, queries, lock, error, hres, pageMap, now, issued>>
    /\ UNCHANGED others

\* set: self.obj.__setattr__(expr, value) is over
SetAttr(r) ==
    /\ pc[r] = "setattr"
    /\ Leave(r, "", FALSE)
    /\ UNCHANGED <<tasks, queries, error, req, pageMap, pageActive, now, issued>>
    /\ UNCHANGED others

\* task "next": getNextTask; None when the queue stayed empty
TaskNext(r) ==
    /\ \E rq \in Posts("next") :
         /\ Accept(r, rq)
         /\ pageActive' = Touch(pageActive, rq.session, now)
    /\ IF tasks # <<>>
         THEN /\ tasks' = GetRest(tasks)
              /\ Leave(r, GetItem(tasks), FALSE)
         ELSE /\ tasks' = tasks
              /\ Leave(r, "None", FALSE)
    /\ UNCHANGED <<queries, error, pageMap, now, issued>>
    /\ UNCHANGED others

\* task "error": return ''
TaskError(r) ==
    /\ \E rq \in Posts("error") :
         /\ Accept(r, rq)
         /\ pageActive' = Touch(pageActive, rq.session, now)
    /\ Leave(r, "", FALSE)
    /\ UNCHANGED <<tasks, queries, error, pageMap, now, issued>>
    /\ UNCHANGED others

\* task "unload": self.addEndTask(); HtmlPage.expire(pageid)
TaskUnload(r) ==
    /\ \E rq \in Posts("unload") :
         /\ Accept(r, rq)
         /\ LET active == Touch(pageActive, rq.session, now)
                gone == Expired(active, rq.session, now)
            IN /\ pageActive' = Without(active, gone)
               /\ pageMap' = Without(pageMap, gone)
    /\ tasks' = Put(tasks, "None")
    /\ Leave(r, "", FALSE)
    /\ UNCHANGED <<queries, error, now, issued>>
    /\ UNCHANGED others

\* self.reply(results), or the handler's thread ends with the exception
Reply(r) ==
    /\ pc[r] = "done"
    /\ pc' = [pc EXCEPT ![r] = "idle"]
    /\ req' = [req EXCEPT ![r] = NoReq]
    /\ hres' = [hres EXCEPT ![r] = "none"]
    /\ UNCHANGED <<tasks, queries, lock, error, pageMap, pageActive, now, issued>>
    /\ UNCHANGED others

\* HtmlPage.insertJS: a page is rendered under a fresh page id
InsertJS(pg) ==
    /\ pg \notin issued
    /\ issued' = issued \cup {pg}
    /\ pageMap' = Touch(pageMap, pg, "u1")
    /\ pageActive' = Touch(pageActive, pg, now)
    /\ UNCHANGED <<tasks, queries, lock, error, req, pc, hres, now>>
    /\ UNCHANGED others

\* a time unit passes
Tick ==
    /\ now < MaxTime
    /\ now' = now + 1
    /\ UNCHANGED <<tasks, queries, lock, error, req, pc, hres, pageMap, pageActive, issued>>
    /\ UNCHANGED others

DispatchInit ==
    /\ tasks = <<"stmt">>
    /\ queries = <<<<>>>>
    /\ lock = "free"
    /\ error = "None"
    /\ req = [r \in Requests |-> NoReq]
    /\ pc = [r \in Requests |-> "idle"]
    /\ hres = [r \in Requests |-> "none"]
    /\ pageMap = <<>>
    /\ pageActive = <<>>
    /\ now = 0
    /\ issued = {}
    /\ contextMap = <<>>
    /\ contexts = <<>>
    /\ inbox = <<>>
    /\ chain = <<>>
    /\ keep = <<>>
    /\ att = <<>>
    /\ qid = <<>>
    /\ pend = <<>>
    /\ op = <<>>
    /\ fl = <<>>
    /\ calls = <<>>
    /\ putLog = <<>>
    /\ got = {}
    /\ last = <<>>
    /\ wire = <<>>

\* a request thread's steps
Serve(r) ==
    \/ TaskInvalid(r)
    \/ TaskState(r)
    \/ TaskRun(r)
    \/ TaskAsync(r)
    \/ RunLookup(r)
    \/ RunCall(r)
    \/ TaskGet(r)
    \/ GetAttr(r)
    \/ TaskSet(r)
    \/ SetAttr(r)
    \/ TaskNext(r)
    \/ TaskError(r)
    \/ TaskUnload(r)
    \/ Reply(r)

\* two requests at a time, within one time unit
DispatchNext ==
    \/ \E r \in Requests : Serve(r)
    \/ \E pg \in PageIds : InsertJS(pg)

SpecDispatch == DispatchInit /\ [][DispatchNext]_vars

\* one request at a time, while time passes
PagesNext ==
    \/ Serve("r1")
    \/ \E pg \in PageIds : InsertJS(pg)
    \/ Tick

SpecPages == DispatchInit /\ [][PagesNext]_vars

\* ------------------------------------------------------------ SpecUnload
\* processCommand line by line for two requests at a time: the membership
\* test of line 385 and the write of the last activity at line 392 are
\* separate statements of the request thread, and another request thread
\* can run between them.  The requests are `next`, `error` and `unload`.
\* The clock stands still, so expire's sweep finds nothing old.

\* line 385: `if pageid in HtmlPage.pageMap`
CheckPage(r) ==
    /\ pc[r] = "idle"
    /\ \E task \in {"next", "error", "unload"} :
         \E rq \in Posts(task) :
            /\ req' = [req EXCEPT ![r] = rq]
            /\ IF KnownPage(pageMap, rq.session)
                 THEN /\ pc' = [pc EXCEPT ![r] = "checked"]
                      /\ UNCHANGED <<hres, lock>>
                 ELSE Leave(r, "Invalid pageid session", FALSE)
    /\ UNCHANGED <<tasks, queries, error, pageMap, pageActive, now, issued>>
    /\ UNCHANGED others

\* line 392: HtmlPage.pageActive[pageid] = time.time()
WriteActive(r) ==
    /\ pc[r] = "checked"
    /\ pageActive' = Touch(pageActive, req[r].session, now)
    /\ pc' = [pc EXCEPT ![r] = "task"]
    /\ UNCHANGED <<tasks, queries, lock, error, req, hres, pageMap, now, issued>>
    /\ UNCHANGED others

\* HtmlPage.expire(item): `del cls.pageActive[item]`, `del cls.pageMap[item]`
\* (either raises KeyError when the key is gone), then the sweep
ExpireItem(r, item) ==
    IF item \notin DOMAIN pageActive
      THEN /\ Leave(r, "raise KeyError", FALSE)
           /\ UNCHANGED <<pageActive, pageMap>>
      ELSE IF item \notin DOMAIN pageMap
        THEN /\ Leave(r, "raise KeyError", FALSE)
             /\ pageActive' = Without(pageActive, {item})
             /\ pageMap' = pageMap
        ELSE /\ Leave(r, "", FALSE)
             /\ pageActive' = Without(pageActive, Expired(pageActive, item, now))
             /\ pageMap' = Without(pageMap, Expired(pageActive, item, now))

\* lines 394-440: the branch of the request's task
DoTask(r) ==
    /\ pc[r] = "task"
    /\ CASE req[r].task = "unload" ->
              /\ tasks' = Put(tasks, "None")
              /\ ExpireItem(r, req[r].session)
         [] req[r].task = "next" ->
              /\ IF tasks # <<>>
                   THEN /\ tasks' = GetRest(tasks)
                        /\ Leave(r, GetItem(tasks), FALSE)
                   ELSE /\ tasks' = tasks
                        /\ Leave(r, "None", FALSE)
              /\ UNCHANGED <<pageActive, pageMap>>
         [] OTHER ->
              /\ Leave(r, "", FALSE)
              /\ UNCHANGED <<tasks, pageActive, pageMap>>
    /\ UNCHANGED <<queries, error, req, now, issued>>
    /\ UNCHANGED others

UnloadNext ==
    \/ \E r \in Requests : CheckPage(r)
    \/ \E r \in Requests : WriteActive(r)
    \/ \E r \in Requests : DoTask(r)
    \/ \E r \in Requests : Reply(r)
    \/ \E pg \in PageIds : InsertJS(pg)

SpecUnload == DispatchInit /\ [][UnloadNext]_vars

\* ------------------------------------------------------------ SpecSession
\* ClientContext._getContextForPage called by two request threads.  The
\* session table is a dict in insertion order: a sequence of entries
\* [key, value], the value being the number of the context in `contexts`.
\* A request carries the session id of its cookie, or none.
SessionIds == {"u1", "u2"}
NoId == "None"

HasKey(map, k) == \E i \in 1..Len(map) : map[i].key = k

Value(map, k) == map[CHOOSE i \in 1..Len(map) : map[i].key = k].value

\* self.contextMap[uid] = context: a new key goes to the end, an existing
\* key keeps its place
SetKey(map, k, v) ==
    IF HasKey(map, k)
      THEN [i \in 1..Len(map) |-> IF map[i].key = k THEN [key |-> k, value |-> v] ELSE map[i]]
      ELSE Append(map, [key |-> k, value |-> v])

\* lines 359-364: without an id, the first key of the table when there is one
FirstKey(map, uid) ==
    IF uid = NoId /\ Len(map) > 0 THEN map[1].key ELSE uid

\* lines 354-368: the id is settled and looked up; an existing context is
\* returned
Resolve(r) ==
    /\ pc[r] = "idle"
    /\ \E uid \in SessionIds \cup {NoId} :
         LET k == FirstKey(contextMap, uid) IN
           /\ req' = [req EXCEPT ![r] = [uid |-> uid, key |-> k]]
           /\ IF HasKey(contextMap, k)
                THEN /\ pc' = [pc EXCEPT ![r] = "done"]
                     /\ hres' = [hres EXCEPT ![r] = Value(contextMap, k)]
                ELSE /\ pc' = [pc EXCEPT ![r] = "create"]
                     /\ hres' = hres
    /\ UNCHANGED <<contextMap, contexts>>
    /\ UNCHANGED <<tasks, queries, lock, error, pagetable>>
    /\ UNCHANGED <<inbox, chain, keep, att, qid, pend, op, fl, calls, putLog, got, last, wire>>

\* lines 369-379: context = ClientContext(appClass, uid);
\* self.contextMap[uid] = context; context.mainRun()
Create(r) ==
    /\ pc[r] = "create"
    /\ contexts' = Append(contexts, [uid |-> req[r].key, main |-> TRUE])
    /\ contextMap' = SetKey(contextMap, req[r].key, Len(contexts) + 1)
    /\ pc' = [pc EXCEPT ![r] = "done"]
    /\ hres' = [hres EXCEPT ![r] = Len(contexts) + 1]
    /\ UNCHANGED <<tasks, queries, lock, error, req, pagetable>>
    /\ UNCHANGED <<inbox, chain, keep, att, qid, pend, op, fl, calls, putLog, got, last, wire>>

\* the caller goes on with the context it was given
Resolved(r) ==
    /\ pc[r] = "done"
    /\ pc' = [pc EXCEPT ![r] = "idle"]
    /\ req' = [req EXCEPT ![r] = [uid |-> NoId, key |-> NoId]]
    /\ hres' = [hres EXCEPT ![r] = 0]
    /\ UNCHANGED <<contextMap, contexts>>
    /\ UNCHANGED <<tasks, queries, lock, error, pagetable>>
    /\ UNCHANGED <<inbox, chain, keep, att, qid, pend, op, fl, calls, putLog, got, last, wire>>

SessionInit ==
    /\ contextMap = <<>>
    /\ contexts = <<>>
    /\ pc = [r \in Requests |-> "idle"]
    /\ req = [r \in Requests |-> [uid |-> NoId, key |-> NoId]]
    /\ hres = [r \in Requests |-> 0]
    /\ tasks = <<>>
    /\ queries = <<>>
    /\ lock = "free"
    /\ error = "None"
    /\ pageMap = <<>>
    /\ pageActive = <<>>
    /\ now = 0
    /\ issued = {}
    /\ inbox = <<>>
    /\ chain = <<>>
    /\ keep = <<>>
    /\ att = <<>>
    /\ qid = <<>>
    /\ pend = <<>>
    /\ op = <<>>
    /\ fl = <<>>
    /\ calls = <<>>
    /\ putLog = <<>>
    /\ got = {}
    /\ last = <<>>
    /\ wire = <<>>

SessionNext ==
    \/ \E r \in Requests : Resolve(r)
    \/ \E r \in Requests : Create(r)
    \/ \E r \in Requests : Resolved(r)

SpecSession == SessionInit /\ [][SessionNext]_vars

\* ------------------------------------------------------------ fairness
\* A request thread keeps running; the backend function it called lets its
\* chain go and returns.
Fairness ==
    \A p \in Pages :
        /\ WF_vars(Backend(p) \/ RunResolve(p) \/ RunEnd(p))
        /\ SF_vars(Del(p))
        /\ SF_vars(RunReturn(p))

FairSpec == Spec /\ Fairness

\* q.get(timeout=timeout) returns or raises: the wait of an eval is a bounded
\* sleep of its own thread, which the scheduler lets finish
EvalFairness == \A t \in Threads : WF_vars(EvalResult(t) \/ EvalTimeout(t))

FairEval == Spec /\ EvalFairness

\* ------------------------------------------------------------ properties
Finished(t) == op[t].out # "run"
Flushing(t) == op[t].name \in {"eval", "async", "assign", "del"}
ViaExec(t) == op[t].name \in {"assign", "del"}
AllOfKind(enq, k) == \A i \in 1..Len(enq) : enq[i].kind = k

\* statements taken by a `next` request whose response is still on its way
InFlight == {inbox[p] : p \in QPages} \ {0}
Polling == {p \in QPages : inbox[p] # 0}
NumTaken == Len(putLog) - Len(tasks)
InQueue(i) == \E k \in 1..Len(tasks) : tasks[k] = i
Places(i) == (IF InQueue(i) THEN 1 ELSE 0) + (IF i \in InFlight THEN 1 ELSE 0)
               + (IF i \in got THEN 1 ELSE 0)
\* position of a statement in the put order (0: never put)
Pos(i) == IF \E k \in 1..Len(putLog) : putLog[k] = i
            THEN CHOOSE k \in 1..Len(putLog) : putLog[k] = i
            ELSE 0

\* C1 as claimed: statements are taken from the queue in put order, each by
\* one `next` request, and no `next` request returns a statement before a
\* request returned every statement put earlier, also with several pages
\* polling.
C1_Original ==
    /\ tasks = SubSeq(putLog, NumTaken + 1, Len(putLog))
    /\ got \cup InFlight = {putLog[k] : k \in 1..NumTaken}
    /\ Cardinality(got) + Cardinality(Polling) = NumTaken
    /\ \A p \in QPages : inbox[p] # 0 => \A g \in got : Pos(g) < Pos(inbox[p])

\* C1 amended: the statements are taken from the queue in put order (the
\* k-th tasks.get returns the k-th statement put), each statement is handed
\* to exactly one `next` request, and a page that has one `next` request
\* outstanding at a time receives its statements in put order.  (Responses
\* to different pages can arrive in either order.)
C1_FifoNoDuplicate ==
    /\ tasks = SubSeq(putLog, NumTaken + 1, Len(putLog))
    /\ got \cup InFlight = {putLog[k] : k \in 1..NumTaken}
    /\ Cardinality(got) + Cardinality(Polling) = NumTaken
    /\ \A p \in QPages : inbox[p] # 0 =>
          /\ inbox[p] \notin got
          /\ \A q \in QPages \ {p} : inbox[q] # inbox[p]
          /\ last[p] # 0 => Pos(last[p]) < Pos(inbox[p])

\* C1 witness: both pages polled concurrently, after the two backend threads
\* put their statements in the reverse of the order they called addTask
C1_Witness ==
    /\ Len(putLog) >= 3
    /\ putLog[1] > putLog[2]
    /\ Cardinality(Polling) = 2
    /\ got # {}

\* C2 as claimed: addTask never drops a statement, however long the queue
\* stays full.
C2_Original ==
    \A i \in 1..Len(calls) : calls[i].status # "dropped"

\* C2 amended: addTask looks at the queue at most AddAttempts times.  A call
\* that found it below QueueLimit at one of them put its statement, which is
\* then in exactly one place (the queue, a response on its way, delivered)
\* and once in the put order.  A call that found it full AddAttempts times
\* returned without enqueuing: its statement is nowhere, then or later, and
\* the session's error slot holds a TimeoutError.
C2_PutOrGiveUp ==
    \A i \in 1..Len(calls) :
        /\ calls[i].status = "put" =>
              /\ Places(i) = 1
              /\ Cardinality({k \in 1..Len(putLog) : putLog[k] = i}) = 1
        /\ calls[i].status = "dropped" =>
              /\ calls[i].fails = AddAttempts
              /\ Places(i) = 0
              /\ Pos(i) = 0
              /\ error = "TimeoutError: inserting task"
        /\ calls[i].status = "adding" => (Places(i) = 0 /\ Pos(i) = 0)

\* C2 witness: a call gave up on a full queue, and the queue was drained
\* afterwards
C2_Witness ==
    \E i \in 1..Len(calls) :
        /\ calls[i].status = "dropped"
        /\ \E j \in got : j < i
        /\ Len(tasks) < QueueLimit

\* C3: a backend function called through a blocking run request never waits
\* on a query's rendezvous queue, whatever way it flushes a chain, and every
\* run request that started its function is answered and releases the guard.
C3_RunNeverWaits ==
    /\ [](\A p \in Pages : pc[p] # "wait")
    /\ \A p \in Pages : (req[p] = "running") ~> (req[p] = "none" /\ lock # p)

\* C3 witness: a run request's function has flushed a chain under the guard
C3_Witness ==
    \E p \in Pages : /\ req[p] = "running"
                     /\ lock = p
                     /\ Flushing(p) /\ Finished(p) /\ op[p].kept

\* Python's == on scalars: numbers (bool included) by value, strings by
\* content, None with None
IsNumber(x) == x.t \in {"int", "float", "bool"}
NumValue(x) == IF x.t = "float" THEN x.n ELSE 2 * x.n
ScalarEq(x, y) ==
    IF IsNumber(x) /\ IsNumber(y) THEN NumValue(x) = NumValue(y)
    ELSE /\ x.t = y.t
         /\ x.t = "str" => x.s = y.s

\* Python's == on the values of the model; dicts compare as sets of entries
PyEq(a, b) ==
    CASE a.t = "list" /\ b.t = "list" ->
           /\ Len(a.items) = Len(b.items)
           /\ \A i \in 1..Len(a.items) : ScalarEq(a.items[i], b.items[i])
      [] a.t = "dict" /\ b.t = "dict" ->
           /\ Len(a.items) = Len(b.items)
           /\ \A i \in 1..Len(a.items) : \E j \in 1..Len(b.items) :
                 /\ ScalarEq(a.items[i].k, b.items[j].k)
                 /\ ScalarEq(a.items[i].v, b.items[j].v)
      [] a.t \in {"list", "dict"} \/ b.t \in {"list", "dict"} -> FALSE
      [] OTHER -> ScalarEq(Part(a), Part(b))

\* v with every key of a mapping replaced by its string; of the entries
\* whose keys have the same string only the last is kept
StringKeyed(v) ==
    IF v.t # "dict" THEN v
    ELSE LET n == Len(v.items)
             str(i) == KeyStr(v.items[i].k)
             kept == {i \in 1..n : \A j \in (i + 1)..n : str(j) # str(i)}
             RECURSIVE Pick(_)
             Pick(i) == IF i > n THEN <<>>
                        ELSE IF i \in kept
                          THEN <<[k |-> PyStr(str(i)), v |-> v.items[i].v]>> \o Pick(i + 1)
                          ELSE Pick(i + 1)
         IN Whole(PyNone, "dict", Pick(1))

AllStringKeys(v) == v.t = "dict" => \A i \in 1..Len(v.items) : v.items[i].k.t = "str"

\* C4 as claimed: the value read back equals the value assigned, for
\* scalars, lists and mappings with string-coercible keys.
C4_Original ==
    wire.pc = "read" => PyEq(wire.result, wire.v)

\* C4 amended: the value read back equals the value assigned with the keys
\* of a mapping replaced by their strings (entries whose keys have the same
\* string collapse to the last one); it equals the value assigned for
\* scalars, lists and mappings whose keys are all strings.
C4_RoundTrip ==
    wire.pc = "read" =>
        /\ PyEq(wire.result, StringKeyed(wire.v))
        /\ AllStringKeys(wire.v) => PyEq(wire.result, wire.v)
        /\ wire.result.t = "dict" =>
              \A i \in 1..Len(wire.result.items) : wire.result.items[i].k.t = "str"

\* C4 witness: a mapping with the keys 5 and "5" was assigned and read back
C4_Witness ==
    /\ wire.pc = "read"
    /\ wire.v.t = "dict"
    /\ Len(wire.v.items) = 2
    /\ wire.v.items[1].k = PyInt(5)
    /\ wire.v.items[2].k = PyStr("5")
    /\ Len(wire.result.items) = 1

\* C5 as claimed: a value consumed from a pending chain with the guard free
\* registers exactly one query, enqueues exactly one wrapper statement for
\* that query, and returns the value of the report read.
C5_Original ==
    \A t \in Threads :
        (op[t].name = "eval" /\ op[t].kept /\ op[t].guard = "free" /\ Finished(t))
          => /\ op[t].nq = 1
             /\ Len(op[t].enq) = 1
             /\ op[t].enq[1] = [kind |-> "wrapper", stmt |-> chain[t], query |-> op[t].q]
             /\ op[t].out = "ret" => (op[t].read /\ op[t].val = op[t].rep.value)

\* C5 amended: exactly one query is registered; at most one statement is
\* enqueued, the wrapper for that query, and none only when addTask gave up
\* on a full queue; a value is returned only from a report read from that
\* query's queue: its value, or 0 when it carries none; a report with an
\* error makes eval raise.
C5_OneSyncFlush ==
    \A t \in Threads :
        (op[t].name = "eval" /\ op[t].kept /\ op[t].guard = "free")
          => /\ op[t].nq = 1
             /\ Len(op[t].enq) <= 1
             /\ \A i \in 1..Len(op[t].enq) :
                   op[t].enq[i] = [kind |-> "wrapper", stmt |-> chain[t], query |-> op[t].q]
             /\ op[t].waited => (op[t].gaveUp <=> op[t].enq = <<>>)
             /\ Finished(t) => op[t].waited
             /\ op[t].out = "ret" =>
                   /\ op[t].read
                   /\ op[t].rep.error = ""
                   /\ op[t].val = (IF op[t].rep.hasValue THEN op[t].rep.value ELSE 0)
             /\ (op[t].read /\ op[t].rep.error # "") => op[t].out = "raise"

\* C5 witness: a consumed value came back from the remote side
C5_Witness ==
    /\ op["main"].name = "eval" /\ op["main"].kept /\ op["main"].guard = "free"
    /\ op["main"].out = "ret" /\ op["main"].val = 7
    /\ Len(op["main"].enq) = 1

C7_Claim ==
    \A t \in Threads :
        (ViaExec(t) /\ op[t].kept /\ op[t].guard = "held" /\ Finished(t))
          => /\ op[t].out = "ret"
             /\ op[t].nq = 0
             /\ Len(op[t].enq) = 1
             /\ op[t].enq[1].kind = "plain"
             /\ op[t].name = "assign" => op[t].enq[1].stmt = chain[t]

\* C8 as claimed: eval on a pending chain while the guard is held enqueues
\* the statement, returns 0 and does not raise.
C8_Original ==
    \A t \in Threads :
        (op[t].name = "eval" /\ op[t].kept /\ op[t].guard = "held" /\ Finished(t))
          => /\ op[t].out = "ret"
             /\ op[t].val = 0
             /\ Len(op[t].enq) = 1

\* C8 amended: eval on a pending chain while the guard is held raises
\* RuntimeError at once: nothing is enqueued, no query is registered, it does
\* not wait, and the pending flag is cleared.
C8_EvalRaisesUnderGuard ==
    \A t \in Threads :
        (op[t].name = "eval" /\ op[t].kept /\ op[t].guard = "held")
          => /\ op[t].out = "raise"
             /\ op[t].err = "RuntimeError: App is active"
             /\ op[t].enq = <<>>
             /\ op[t].nq = 0
             /\ ~op[t].waited
             /\ ~keep[t]

\* C8 witness: a run request's function consumed a value under the guard
C8_Witness ==
    \E p \in Pages : /\ lock = p
                     /\ op[p].name = "eval" /\ op[p].kept /\ op[p].guard = "held"
                     /\ op[p].out = "raise"

C10_RemoteErrorRaises ==
    \A t \in Threads :
        (op[t].name \in {"eval", "assign"} /\ op[t].read /\ op[t].rep.error # "")
          => /\ op[t].out = "raise"
             /\ op[t].err = "RuntimeError: remote"

\* C10 witness: an assignment made with the guard free raised the remote error
C10_Witness ==
    /\ op["main"].name = "assign" /\ op["main"].guard = "free"
    /\ op["main"].read /\ op["main"].rep.error = "E"
    /\ op["main"].out = "raise"

\* ---------------------------------------------------------------- C11
\* C11: a synchronous flush terminates. Every eval that blocks on its query's
\* rendezvous queue leaves the wait, and it leaves it in one of three ways:
\* it read a report without error and returns that report's value, it read a
\* report with a non-empty error and raises the remote error, or it read
\* nothing and raises the timeout.
EvalOutcome(o) ==
    \/ o.out = "ret" /\ o.read /\ o.rep.error = "" /\ o.val = EvalValue(o.rep)
    \/ o.out = "raise" /\ o.read /\ o.rep.error # "" /\ o.err = "RuntimeError: remote"
    \/ o.out = "raise" /\ ~o.read /\ o.err = "TimeoutError: waiting"

C11_EvalTerminates ==
    /\ [](\A t \in Threads :
            (op[t].waited /\ Finished(t))
                => EvalOutcome(op[t]))
    /\ \A t \in Threads : (pc[t] = "wait") ~> (pc[t] # "wait")

\* an eval waited, no report with its id came, and it raised the timeout
C11_Witness ==
    /\ op["main"].name = "eval" /\ op["main"].waited /\ op["main"].out = "raise"
    /\ ~op["main"].read /\ op["main"].err = "TimeoutError: waiting"
    /\ op["main"].enq # <<>>

Processed(r, task) == pc[r] = "done" /\ req[r].task = task /\ hres[r] # "Invalid pageid session"

\* C13: once the dispatcher has processed an `error` request of a valid page,
\* the session's error slot holds the reported error.
C13_Claim ==
    \A r \in Requests : Processed(r, "error") => error # "None"

\* ---------------------------------------------------------------- C14
\* the request names no function: a name the backend object lacks, or the
\* dispatch marker with an id that is not registered
Unresolvable(rq) ==
    \/ rq.function = "nosuch"
    \/ rq.function = "_callfxn" /\ rq.id \notin Registered

\* C14: a `run` or `async` request that names no resolvable function (and
\* was not refused for the guard) ends with an `error` payload, raises
\* nothing in the request thread, and does not leave the guard with the
\* thread.
C14_Claim ==
    \A r \in Requests :
        (/\ Processed(r, "run") \/ Processed(r, "async")
         /\ Unresolvable(req[r])
         /\ hres[r] # "raise RuntimeError: would block")
            => hres[r] = "error: Unsupported" /\ lock # r

\* ---------------------------------------------------------------- C15
\* C15: a request whose page id is not in the page map is answered with the
\* invalid-session message and changes nothing: the Task Queue, the queries,
\* the guard, the error slot and the page table (with the last-activity
\* times) are as before, and the thread goes straight to its reply without
\* entering run, get or set.
C15_InvalidPageNoEffect ==
    [][\A r \in Requests :
        (pc[r] = "idle" /\ pc'[r] # "idle" /\ req'[r].session \notin DOMAIN pageMap)
            => /\ pc'[r] = "done"
               /\ hres'[r] = "Invalid pageid session"
               /\ UNCHANGED <<tasks, queries, lock, error, pageMap, pageActive>>
      ]_vars

\* a `next` request of a page that was issued and is no longer in the map
\* was refused while a statement was waiting in the Task Queue
C15_Witness ==
    /\ pc["r1"] = "done" /\ hres["r1"] = "Invalid pageid session"
    /\ req["r1"].task = "next" /\ req["r1"].session \in issued
    /\ tasks # <<>> /\ pageMap # <<>>

\* ---------------------------------------------------------------- C16
\* the request thread is inside run, get or set for the remote side
InRemoteOp(r) ==
    /\ pc[r] \in {"lookup", "call", "getattr", "setattr"}
    /\ req[r].task \in {"run", "get", "set"}

\* C16: at most one run, get or set made for the remote side is in progress
\* in the session, and the thread making it holds the guard throughout.
C16_Claim ==
    /\ Cardinality({r \in Requests : InRemoteOp(r)}) <= 1
    /\ \A r \in Requests : InRemoteOp(r) => lock = r

\* ---------------------------------------------------------------- C17
\* the thread is between the enqueueing of eval's wrapper statement and
\* eval's return
InSyncFlush(t) ==
    /\ pc[t] \in {"addchk", "addput", "wait"}
    /\ op[t].name # "async"

\* C17 as stated: the guard is held for the whole of a synchronous flush.
C17_Original ==
    \A t \in Threads : InSyncFlush(t) => lock = t

\* C17: eval requires the guard to be free when it begins and never takes
\* it: during the whole of a synchronous flush the flushing thread does not
\* hold the guard, which a `run` request is free to take meanwhile.
C17_EvalNeverHoldsGuard ==
    \A t \in Threads :
        InSyncFlush(t) => op[t].guard = "free" /\ lock # t

\* the main thread waits for its report while a run request holds the guard
\* and its function is in progress
C17_Witness ==
    /\ pc["main"] = "wait" /\ op["main"].name = "eval"
    /\ lock = "p1" /\ pc["p1"] = "idle"

\* ---------------------------------------------------------------- C18
\* C18: a blocking `run` or `get` taken up while the guard is held does not
\* wait: the step that takes it up ends it with the would-block error,
\* without entering the lookup, the call or the attribute read, and the
\* guard stays with the thread that holds it.
C18_WouldBlock ==
    [][\A r \in Requests :
        (/\ pc[r] = "idle" /\ pc'[r] # "idle"
         /\ req'[r].task \in {"run", "get"}
         /\ req'[r].session \in DOMAIN pageMap
         /\ lock # "free")
            => /\ pc'[r] = "done"
               /\ hres'[r] = "raise RuntimeError: would block"
               /\ lock' = lock
      ]_vars

\* a get was refused while the other request thread holds the guard with its
\* function in progress
C18_Witness ==
    /\ pc["r1"] = "done" /\ hres["r1"] = "raise RuntimeError: would block"
    /\ req["r1"].task = "get"
    /\ lock = "r2" /\ pc["r2"] = "call" /\ req["r2"].task = "run"

\* ---------------------------------------------------------------- C19
\* C19: an `async` request never acquires or releases the guard: no step of
\* a request thread serving one changes the guard, it is never refused for
\* the guard, and its function is called with the guard held as well as
\* free.
C19_AsyncLeavesGuard ==
    [][\A r \in Requests :
        (pc'[r] # pc[r] /\ (req[r].task = "async" \/ req'[r].task = "async"))
            => /\ lock' = lock
               /\ hres'[r] # "raise RuntimeError: would block"
               /\ (pc[r] = "idle" /\ req'[r].session \in DOMAIN pageMap)
                     => pc'[r] = "lookup"
      ]_vars

\* the function of an async request is in progress while the other request
\* thread holds the guard
C19_Witness ==
    /\ pc["r1"] = "call" /\ req["r1"].task = "async"
    /\ lock = "r2" /\ pc["r2"] \in {"call", "getattr"}

\* ---------------------------------------------------------------- C20
\* C20: a registered page is alive exactly while its last request (or its
\* render) is less than ExpireAfter time units old.  Stated here with the
\* boundary allowed: no page whose last activity is more than ExpireAfter
\* old is alive, and every registered page with younger activity is.
C20_Claim ==
    \A pg \in DOMAIN pageMap :
        /\ Alive(pg) => now - pageActive[pg] <= ExpireAfter
        /\ (pg \in DOMAIN pageActive /\ now - pageActive[pg] < ExpireAfter) => Alive(pg)

\* ---------------------------------------------------------------- C21
\* C21: once the `unload` request of a page has been processed the page is
\* never alive again, whatever other requests with its page id are being
\* served.  In SpecUnload a page that was issued leaves the page map only
\* through its own unload.
C21_Claim ==
    \A pg \in issued : pg \notin DOMAIN pageMap => ~Alive(pg)

\* ---------------------------------------------------------------- C22
\* C22: session resolution creates or returns.  At most one context (with
\* its main thread) is ever created per session id, and a resolution that
\* has its result holds the context the table has for the id.
C22_Claim ==
    /\ \A i, j \in 1..Len(contexts) : contexts[i].uid = contexts[j].uid => i = j
    /\ \A r \in Requests :
          pc[r] = "done" => hres[r] = Value(contextMap, req[r].key)

\* ------------------------------------------------------------ SpecItem
\* An index assignment `c[k] = v` on a remote collection c, then the
\* membership test `k in c` and the index read `c[k]`, by one backend
\* thread outside the guard.  The assignment is made on a fresh chain for c;
\* the test and the read are made on one chain for c that is either fresh
\* (pending flag set) or was flushed before (flag cleared).  The remote
\* collection is a JavaScript object or array, kept as the list of its
\* properties [k, v] (k a string; the elements of an array are the
\* properties "0", "1", ...).

\* the keys used; two of them have a string form that is not a plain
\* JavaScript string literal between single quotes
ItemKeys == KeyScalars \cup {PyStr("it's"), PyStr("a\\b")}

\* "['%s']" % str(key), as the page reads the literal: a quote ends the
\* literal early (a syntax error), \b is the backspace escape
JsLit(s) ==
    CASE s = "it's" -> "SyntaxError"
      [] s = "a\\b" -> "a<BS>"
      [] OTHER -> s

\* the array index a property name stands for, -1 for other names
IndexOf(s) == CASE s = "0" -> 0 [] s = "5" -> 5 [] s = "9" -> 9 [] OTHER -> -1

\* the remote collections at the start
Collections ==
    { [t |-> "object", items |-> <<>>],
      [t |-> "object", items |-> <<[k |-> "5", v |-> [t |-> "number", n |-> -198, s |-> ""]]>>],
      [t |-> "array", items |-> <<>>],
      [t |-> "array", items |-> <<[k |-> "0", v |-> [t |-> "string", n |-> 0, s |-> "a"]]>>] }

\* JavaScript's `name in c`
HasProp(c, name) == \E i \in 1..Len(c.items) : c.items[i].k = name

\* JavaScript's c[name]
PropOf(c, name) == c.items[CHOOSE i \in 1..Len(c.items) : c.items[i].k = name].v

\* JavaScript's c[name] = x
SetProp(c, name, x) == [c EXCEPT !.items = ObjectOf(Append(c.items, [k |-> name, v |-> x]))]

\* what eval returns for c[name]: the value through JSON.stringify and
\* json.loads, 0 when the report carries no value (undefined)
ReadProp(c, name) ==
    IF HasProp(c, name)
      THEN LoadsScalar(StringifyScalar(PropOf(c, name)))
      ELSE PyInt(0)

\* json.loads(JSON.stringify(c)) as eval returns it for an array: the list
\* of its elements (a hole is null, a property that is no index is left out)
Elements(c) ==
    LET idx == {IndexOf(c.items[i].k) : i \in 1..Len(c.items)} \ {-1}
        len == IF idx = {} THEN 0 ELSE 1 + CHOOSE m \in idx : \A j \in idx : j <= m
        name(i) == CHOOSE s \in {c.items[j].k : j \in 1..Len(c.items)} : IndexOf(s) = i
    IN [i \in 1..len |->
          IF (i - 1) \in idx THEN ReadProp(c, name(i - 1)) ELSE PyNone]

\* JSchain.__contains__ for a list: d.__contains__(item)
ContainsValue(els, item) == \E i \in 1..Len(els) : ScalarEq(els[i], item)

\* JSchain.__contains__: str(item) among the keys of a dict, the item among
\* the elements of a list
ContainsByValue(c, item) == ContainsValue(Elements(c), item)

Contains(c, item) ==
    IF c.t = "object"
      THEN HasProp(c, KeyStr(item))
      ELSE ContainsValue(Elements(c), item)

\* `if not haskey` in __getitem__
TruthyAlways(m) == TRUE

Truthy(m) == m = "true"

ItemStart(c, k, v, fresh) ==
    wire = [pc |-> "start", k |-> k, v |-> v, remote |-> c, fresh |-> fresh,
            assigned |-> FALSE, tested |-> FALSE, has |-> FALSE,
            member |-> "none", sent |-> <<>>, result |-> PyNone, err |-> ""]

ItemFrame ==
    /\ UNCHANGED <<tasks, queries, lock, error, inbox, req, pc, chain, keep, att, qid,
                   pend, hres, op, fl, calls, putLog, got, last>>
    /\ UNCHANGED pagetable
    /\ UNCHANGED sessions

\* c[k] = v: JSchain.__setitem__, setdata and the flush; the page's error
\* comes back with the report
ItemAssign ==
    /\ wire.pc = "start"
    /\ LET name == JsLit(KeyStr(wire.k)) IN
         IF name = "SyntaxError"
           THEN wire' = [wire EXCEPT !.pc = "raised", !.err = "RuntimeError"]
           ELSE wire' = [wire EXCEPT !.pc = "assigned", !.assigned = TRUE,
                           !.remote = SetProp(wire.remote, name, JsScalar(DumpsScalar(wire.v)))]
    /\ ItemFrame

\* k in c: JSchain.__contains__ evaluates the whole collection; eval of a
\* flushed chain returns 0, which has no __contains__
ItemContains ==
    /\ wire.pc = "assigned"
    /\ IF wire.fresh
         THEN wire' = [wire EXCEPT !.pc = "checked", !.tested = TRUE,
                         !.has = Contains(wire.remote, wire.k)]
         ELSE wire' = [wire EXCEPT !.pc = "raised", !.err = "AttributeError"]
    /\ ItemFrame

\* c[k], line 1126-1127: the copy of the chain, prefixed with 'k' in, is
\* evaluated (a copy always has its pending flag set)
ItemMemberSend ==
    /\ wire.pc \in {"start", "assigned", "checked"}
    /\ wire' = [wire EXCEPT !.pc = "member", !.sent = Append(@, "in")]
    /\ ItemFrame

\* the page's report for the membership query reaches eval
ItemMemberReport ==
    /\ wire.pc = "member"
    /\ LET name == JsLit(KeyStr(wire.k)) IN
         IF name = "SyntaxError"
           THEN wire' = [wire EXCEPT !.pc = "raised", !.err = "RuntimeError"]
           ELSE wire' = [wire EXCEPT !.pc = "reported",
                           !.member = IF HasProp(wire.remote, name) THEN "true" ELSE "false"]
    /\ ItemFrame

\* line 1128-1132: KeyError, or the chain itself is extended and evaluated;
\* a chain flushed before sends nothing and yields 0
ItemBranch ==
    /\ wire.pc = "reported"
    /\ IF ~Truthy(wire.member)
         THEN wire' = [wire EXCEPT !.pc = "raised", !.err = "KeyError"]
         ELSE IF wire.fresh
           THEN wire' = [wire EXCEPT !.pc = "value", !.sent = Append(@, "value")]
           ELSE wire' = [wire EXCEPT !.pc = "read", !.result = PyInt(0)]
    /\ ItemFrame

\* the page's report for the value query reaches eval
ItemValueReport ==
    /\ wire.pc = "value"
    /\ wire' = [wire EXCEPT !.pc = "read",
                  !.result = ReadProp(wire.remote, JsLit(KeyStr(wire.k)))]
    /\ ItemFrame

\* no report within eval's timeout
ItemTimeout ==
    /\ wire.pc \in {"member", "value"}
    /\ wire' = [wire EXCEPT !.pc = "raised", !.err = "TimeoutError"]
    /\ ItemFrame

ItemInit ==
    /\ \E c \in Collections, k \in ItemKeys, v \in Scalars, fresh \in BOOLEAN :
          ItemStart(c, k, v, fresh)
    /\ tasks = <<>>
    /\ queries = <<>>
    /\ lock = "free"
    /\ error = "None"
    /\ inbox = <<>>
    /\ req = <<>>
    /\ pc = <<>>
    /\ chain = <<>>
    /\ keep = <<>>
    /\ att = <<>>
    /\ qid = <<>>
    /\ pend = <<>>
    /\ hres = <<>>
    /\ op = <<>>
    /\ fl = <<>>
    /\ calls = <<>>
    /\ putLog = <<>>
    /\ got = {}
    /\ last = <<>>
    /\ pageMap = <<>>
    /\ pageActive = <<>>
    /\ now = 0
    /\ issued = {}
    /\ contextMap = <<>>
    /\ contexts = <<>>

ItemNext ==
    \/ ItemAssign
    \/ ItemContains
    \/ ItemMemberSend
    \/ ItemMemberReport
    \/ ItemBranch
    \/ ItemValueReport
    \/ ItemTimeout

SpecItem == ItemInit /\ [][ItemNext]_vars

\* ---------------------------------------------------------------- C23
\* the key's string form is a plain literal between single quotes
PlainKey(k) == JsLit(KeyStr(k)) = KeyStr(k)

LazyPages == {"p1", "p2"}

\* statements the thread flushes between creating v and consuming it
MaxFlushed == 3

NoStmt == [kind |-> "none", stmt |-> "", arg |-> 0, query |-> 0]

\* the Python side of `100 + js.counter`: __radd__ is eval() + 100
\* (variant: the chain taken as 0 without a round trip)
AddToUnread(x) == 100

AddTo(x) == 100 + x

\* what a statement does to the window's counter
Effect(s, c) ==
    CASE s.stmt = "set" -> s.arg
      [] s.stmt = "inc" -> c + 1
      [] OTHER -> c

LazyFrame ==
    /\ UNCHANGED <<queries, lock, error, req, chain, att, qid, pend, hres, op, fl,
                   calls, putLog, got, last>>
    /\ UNCHANGED pagetable
    /\ UNCHANGED sessions

\* v = js.counter: JSroot.__getattr__ builds the chain; nothing is sent
LazyCreate ==
    /\ pc["main"] = "start"
    /\ pc' = [pc EXCEPT !["main"] = "work"]
    /\ keep' = [keep EXCEPT !["v"] = TRUE]
    /\ UNCHANGED <<tasks, inbox, wire>>
    /\ LazyFrame

\* js.counter = n: JSroot.__setattr__, flushed by execExpression through eval
LazyAssign(n) ==
    /\ pc["main"] = "work"
    /\ wire.flushed < MaxFlushed
    /\ tasks' = Put(tasks, [kind |-> "wrapper", stmt |-> "set", arg |-> n,
                            query |-> wire.nq + 1])
    /\ pc' = [pc EXCEPT !["main"] = "wait"]
    /\ wire' = [wire EXCEPT !.nq = @ + 1, !.flushed = @ + 1, !.expect = n,
                   !.lastOp = "assign"]
    /\ UNCHANGED <<inbox, keep>>
    /\ LazyFrame

\* a statement flushed with evalAsync: put, no wait
LazyAsync ==
    /\ pc["main"] = "work"
    /\ wire.flushed < MaxFlushed
    /\ tasks' = Put(tasks, [kind |-> "plain", stmt |-> "inc", arg |-> 0, query |-> 0])
    /\ wire' = [wire EXCEPT !.flushed = @ + 1, !.expect = @ + 1, !.lastOp = "async"]
    /\ UNCHANGED <<inbox, keep, pc>>
    /\ LazyFrame

\* js.counter = 100 + js.counter, first half: the chain on the right is
\* a fresh one and is evaluated (JSchain.__radd__)
LazyNested ==
    /\ pc["main"] = "work"
    /\ wire.flushed < MaxFlushed
    /\ tasks' = Put(tasks, [kind |-> "wrapper", stmt |-> "read", arg |-> 0,
                            query |-> wire.nq + 1])
    /\ pc' = [pc EXCEPT !["main"] = "nested"]
    /\ wire' = [wire EXCEPT !.nq = @ + 1, !.nested = "sent"]
    /\ UNCHANGED <<inbox, keep>>
    /\ LazyFrame

\* second half: the report of the nested read has arrived; the assignment
\* is built with the number and flushed
LazyOuter ==
    /\ pc["main"] = "nested"
    /\ wire.report.query = wire.nq
    /\ tasks' = Put(tasks, [kind |-> "wrapper", stmt |-> "set",
                            arg |-> AddTo(wire.report.value), query |-> wire.nq + 1])
    /\ pc' = [pc EXCEPT !["main"] = "wait"]
    /\ wire' = [wire EXCEPT !.nq = @ + 1, !.flushed = @ + 1,
                   !.nested = "reported", !.read = wire.report.value,
                   !.expect = 100 + wire.report.value, !.lastOp = "addto"]
    /\ UNCHANGED <<inbox, keep>>
    /\ LazyFrame

\* the report of an assignment has arrived: eval returns
LazyResume ==
    /\ pc["main"] = "wait"
    /\ wire.report.query = wire.nq
    /\ pc' = [pc EXCEPT !["main"] = "work"]
    /\ wire' = [wire EXCEPT !.nested = "none"]
    /\ UNCHANGED <<tasks, inbox, keep>>
    /\ LazyFrame

\* v is consumed (assertEqual(v, 111)): JSchain.__eq__ is eval().  With the
\* pending flag set the wrapper statement is put and the thread waits; with
\* the flag cleared (v was consumed before) eval returns 0 at once.
LazyConsume ==
    /\ pc["main"] \in {"work", "done"}
    /\ IF Pending(keep["v"])
         THEN /\ keep' = [keep EXCEPT !["v"] = FALSE]
              /\ tasks' = Put(tasks, [kind |-> "wrapper", stmt |-> "read", arg |-> 0,
                                      query |-> wire.nq + 1])
              /\ pc' = [pc EXCEPT !["main"] = "consume"]
              /\ wire' = [wire EXCEPT !.nq = @ + 1]
         ELSE /\ pc' = [pc EXCEPT !["main"] = "again"]
              /\ wire' = [wire EXCEPT !.again = [sent |-> FALSE, value |-> 0]]
              /\ UNCHANGED <<tasks, keep>>
    /\ UNCHANGED inbox
    /\ LazyFrame

\* the report for v has arrived: eval returns result["value"]
LazyValue ==
    /\ pc["main"] = "consume"
    /\ wire.report.query = wire.nq
    /\ pc' = [pc EXCEPT !["main"] = "done"]
    /\ wire' = [wire EXCEPT !.result = wire.report.value]
    /\ UNCHANGED <<tasks, inbox, keep>>
    /\ LazyFrame

\* a `next` request of page p takes the head of the queue
LazyPoll(p) ==
    /\ inbox[p] = NoStmt
    /\ tasks # <<>>
    /\ inbox' = [inbox EXCEPT ![p] = GetItem(tasks)]
    /\ tasks' = GetRest(tasks)
    /\ wire' = [wire EXCEPT !.polled = @ \cup {p}]
    /\ UNCHANGED <<pc, keep>>
    /\ LazyFrame

\* page p evaluates what it received: a plain statement, or a wrapper
\* (sendFromBrowserToServer), whose value is posted as a `state` report
LazyRun(p) ==
    /\ inbox[p] # NoStmt
    /\ inbox' = [inbox EXCEPT ![p] = NoStmt]
    /\ LET c == Effect(inbox[p], wire.win[p]) IN
         wire' = [wire EXCEPT !.win[p] = c,
                     !.report = IF inbox[p].kind = "wrapper"
                                  THEN [query |-> inbox[p].query, value |-> c]
                                  ELSE @]
    /\ UNCHANGED <<tasks, pc, keep>>
    /\ LazyFrame

LazyInit ==
    /\ tasks = <<>>
    /\ inbox = [p \in LazyPages |-> NoStmt]
    /\ pc = [t \in {"main"} |-> "start"]
    /\ keep = [c \in {"v"} |-> FALSE]
    /\ wire = [win |-> [p \in LazyPages |-> 0], nq |-> 0, flushed |-> 0,
               report |-> [query |-> 0, value |-> 0], expect |-> 0,
               nested |-> "none", read |-> 0, lastOp |-> "none",
               result |-> -1, again |-> [sent |-> FALSE, value |-> -1],
               polled |-> {}]
    /\ queries = <<>>
    /\ lock = "free"
    /\ error = "None"
    /\ req = <<>>
    /\ chain = <<>>
    /\ att = <<>>
    /\ qid = <<>>
    /\ pend = <<>>
    /\ hres = <<>>
    /\ op = <<>>
    /\ fl = <<>>
    /\ calls = <<>>
    /\ putLog = <<>>
    /\ got = {}
    /\ last = <<>>
    /\ pageMap = <<>>
    /\ pageActive = <<>>
    /\ now = 0
    /\ issued = {}
    /\ contextMap = <<>>
    /\ contexts = <<>>

LazyNext ==
    \/ LazyCreate
    \/ \E n \in {10, 111} : LazyAssign(n)
    \/ LazyAsync
    \/ LazyNested
    \/ LazyOuter
    \/ LazyResume
    \/ LazyConsume
    \/ LazyValue
    \/ \E p \in LazyPages : LazyPoll(p)
    \/ \E p \in LazyPages : LazyRun(p)

SpecLazy == LazyInit /\ [][LazyNext]_vars

\* ---------------------------------------------------------------- C25
\* the statements put for the session and not yet evaluated
Unevaluated == tasks \o SelectSeq([i \in 1..2 |-> inbox[IF i = 1 THEN "p1" ELSE "p2"]],
                                  LAMBDA s : s # NoStmt)

\* at most one page has polled the session's queue
OnePage == Cardinality(wire.polled) <= 1

\* C25 as stated: nothing is sent when the chain is created, and the value
\* at first consumption reflects every statement the thread flushed since.
C25_Original ==
    /\ (pc["main"] = "work" /\ wire.flushed = 0) => (wire.nq = 0 /\ Unevaluated = <<>>)
    /\ pc["main"] = "done" => wire.result = wire.expect

\* C25: no statement is sent when the chain is built and stored; its value
\* query is put only when it is consumed; when one page polls the session's
\* queue, the value obtained reflects every statement the thread flushed
\* between the creation and the consumption.
C25_EvaluatedWhenConsumed ==
    /\ (pc["main"] = "work" /\ wire.flushed = 0) => (wire.nq = 0 /\ Unevaluated = <<>>)
    /\ keep["v"] => pc["main"] \notin {"consume", "done"}
    /\ (pc["main"] = "done" /\ OnePage) => wire.result = wire.expect

\* the chain was created at 0; the counter was then set to 10, raised by
\* 100 and incremented; the consumption returned 111
C25_Witness ==
    /\ pc["main"] = "done" /\ wire.result = 111 /\ wire.flushed = 3
    /\ wire.lastOp = "async" /\ OnePage

\* ---------------------------------------------------------------- C26
\* the unevaluated statements of a kind
Waiting(stmt) == SelectSeq(Unevaluated, LAMBDA s : s.stmt = stmt)

\* C26 as stated: the nested round trip completes before the outer
\* statement is enqueued, the outer statement carries the reported value,
\* and a read after `counter = 100 + counter` returns 100 plus the value
\* read.
C26_Original ==
    /\ pc["main"] = "nested" => Waiting("set") = <<>>
    /\ (pc["main"] = "wait" /\ wire.lastOp = "addto") =>
          \A i \in 1..Len(Waiting("set")) : Waiting("set")[i].arg = 100 + wire.read
    /\ (pc["main"] = "done" /\ wire.lastOp = "addto") => wire.result = 100 + wire.read

\* C26: while the nested chain's round trip is in progress the outer
\* statement is not enqueued; the outer statement is put after the report
\* was received and carries 100 plus the reported value; when one page polls
\* the session's queue, a read made after the assignment returns 100 plus
\* the value read.
C26_NestedBeforeOuter ==
    /\ pc["main"] = "nested" => Waiting("set") = <<>>
    /\ (pc["main"] = "wait" /\ wire.lastOp = "addto") =>
          /\ wire.nested = "reported"
          /\ \A i \in 1..Len(Waiting("set")) : Waiting("set")[i].arg = 100 + wire.read
    /\ (pc["main"] = "done" /\ wire.lastOp = "addto" /\ OnePage) =>
          wire.result = 100 + wire.read

\* counter was 10, `counter = 100 + counter` was flushed, and the read
\* after it returned 110
C26_Witness ==
    /\ pc["main"] = "done" /\ wire.lastOp = "addto" /\ wire.read = 10
    /\ wire.result = 110 /\ OnePage

\* -------------------------------------------------------- SpecRegistry
\* Backend code assigns callables to remote properties (`js.b.onclick = h`).
\* A callable is a Python object with an address, id(h); an object nothing
\* refers to any more is freed and its address can be given to a new object.
\* The registry is ClientContext.fxn, id -> callable.  wire holds:
\*   addr      callable -> its address (0: no such object now)
\*   held      the callables the program still refers to
\*   fxn       the registry, as a function from the ids in use
\*   reg       callable -> the id it was registered under (0: never)
\*   asked     the installing statements the assignments tried to flush
\*   handlers  the ids the page has a handler for
\*   invoked   the latest _callfxn request: its id and what it called
Callables == {"h1", "h2", "h3"}

Addresses == {1, 2}

\* installing statements per run
MaxInstalls == 3

\* the objects alive: referred to by the program or by the registry
Alive27(w) == w.held \cup {w.fxn[i] : i \in DOMAIN w.fxn}

\* the addresses of the objects alive
InUse(w) == {w.addr[h] : h \in Alive27(w)}

\* f"=function(){{server._callfxn({idx});}}"
Install(idx) == [kind |-> "plain", stmt |-> "install", arg |-> idx, query |-> 0]

RegFrame ==
    /\ UNCHANGED <<queries, error, inbox, req, pc, chain, keep, att, qid, pend, hres,
                   op, fl, calls, putLog, got, last>>
    /\ UNCHANGED pagetable
    /\ UNCHANGED sessions

\* a callable comes into being (a def, a lambda, a bound method `self.h`)
NewCallable(h) ==
    /\ wire.addr[h] = 0
    /\ wire.reg[h] = 0
    /\ \E a \in Addresses \ InUse(wire) :
          wire' = [wire EXCEPT !.addr[h] = a, !.held = @ \cup {h}]
    /\ UNCHANGED <<tasks, lock>>
    /\ RegFrame

\* the program lets go of a callable; it is freed unless the registry has it
Forget(h) ==
    /\ h \in wire.held
    /\ wire' = [wire EXCEPT !.held = @ \ {h}]
    /\ UNCHANGED <<tasks, lock>>
    /\ RegFrame

\* js.x.attr = h: JSchain.__setattr__, setdata, execExpression.  With the
\* guard free the statement is flushed through eval; with the guard held
\* execExpression calls self._addTask, which does not exist, and nothing is
\* put.
AssignCallable(h) ==
    /\ h \in wire.held
    /\ Len(wire.asked) < MaxInstalls
    /\ LET idx == wire.addr[h] IN
         /\ wire' = [wire EXCEPT
                        !.fxn = [i \in DOMAIN @ \cup {idx} |-> IF i = idx THEN h ELSE @[i]],
                        !.reg[h] = idx,
                        !.asked = Append(@, [id |-> idx, guard |-> GuardNow(lock),
                                             put |-> ~ExecLocked(lock)])]
         /\ IF ExecLocked(lock)
              THEN tasks' = tasks
              ELSE tasks' = Put(tasks, Install(idx))
    /\ UNCHANGED lock
    /\ RegFrame

\* a blocking run request begins, ends: ClientContext.run takes the guard
\* and releases it; the function it runs is the program above
RegEnter ==
    /\ CanAcquire(lock)
    /\ lock' = "p1"
    /\ UNCHANGED <<tasks, wire>>
    /\ RegFrame

RegLeave ==
    /\ lock = "p1"
    /\ lock' = "free"
    /\ UNCHANGED <<tasks, wire>>
    /\ RegFrame

\* the page takes the next statement and evaluates it: the property is now
\* a function that posts _callfxn with the id
PageInstall ==
    /\ tasks # <<>>
    /\ tasks' = GetRest(tasks)
    /\ wire' = [wire EXCEPT !.handlers = @ \cup {GetItem(tasks).arg}]
    /\ UNCHANGED lock
    /\ RegFrame

\* the page fires a handler: server._callfxn(idx) posts task "async" with
\* function "_callfxn" and args [idx]; run pops the id and calls fxn[id]
CallFxn(idx) ==
    /\ idx \in wire.handlers
    /\ wire' = [wire EXCEPT !.invoked =
                   [id |-> idx,
                    f |-> IF idx \in DOMAIN wire.fxn THEN wire.fxn[idx] ELSE "KeyError"]]
    /\ UNCHANGED <<tasks, lock>>
    /\ RegFrame

RegInit ==
    /\ tasks = <<>>
    /\ lock = "free"
    /\ wire = [addr |-> [h \in Callables |-> 0], held |-> {}, fxn |-> <<>>,
               reg |-> [h \in Callables |-> 0], asked |-> <<>>, handlers |-> {},
               invoked |-> [id |-> 0, f |-> "none"]]
    /\ queries = <<>>
    /\ error = "None"
    /\ inbox = <<>>
    /\ req = <<>>
    /\ pc = <<>>
    /\ chain = <<>>
    /\ keep = <<>>
    /\ att = <<>>
    /\ qid = <<>>
    /\ pend = <<>>
    /\ hres = <<>>
    /\ op = <<>>
    /\ fl = <<>>
    /\ calls = <<>>
    /\ putLog = <<>>
    /\ got = {}
    /\ last = <<>>
    /\ pageMap = <<>>
    /\ pageActive = <<>>
    /\ now = 0
    /\ issued = {}
    /\ contextMap = <<>>
    /\ contexts = <<>>

RegNext ==
    \/ \E h \in Callables : NewCallable(h)
    \/ \E h \in Callables : Forget(h)
    \/ \E h \in Callables : AssignCallable(h)
    \/ RegEnter
    \/ RegLeave
    \/ PageInstall
    \/ \E idx \in Addresses : CallFxn(idx)

SpecRegistry == RegInit /\ [][RegNext]_vars

\* ---------------------------------------------------------------- C27
\* the callables registered so far
Registered27 == {h \in Callables : wire.reg[h] # 0}

\* the registry part of C27: every callable ever registered is still in the
\* registry under its own id, which no other registered callable has, and a
\* _callfxn request with that id called exactly it
C27_Registry ==
    /\ \A h \in Registered27 :
          wire.reg[h] \in DOMAIN wire.fxn /\ wire.fxn[wire.reg[h]] = h
    /\ \A g, h \in Registered27 : g # h => wire.reg[g] # wire.reg[h]
    /\ wire.invoked.id # 0 =>
          /\ wire.invoked.f \in Registered27
          /\ wire.reg[wire.invoked.f] = wire.invoked.id

\* C27: assigning a callable h to a remote property registers h under an id
\* no other registered callable has and enqueues a statement installing a
\* handler for that id; a later _callfxn request with that id invokes
\* exactly h; registry entries are never removed.
C27_Claim ==
    /\ C27_Registry
    /\ \A i \in 1..Len(wire.asked) : wire.asked[i].put

\* ---------------------------------------------------------------- C28
\* C28: a chain kept in a variable goes back to the remote side every time
\* it is consumed: the second consumption of v performs its own round trip
\* and returns the remote value at that moment (one page polling).
C28_Claim ==
    (pc["main"] = "again" /\ OnePage) =>
        /\ wire.again.sent
        /\ wire.again.value = wire.expect

\* ------------------------------------------------------------ SpecPoll
\* The poll loop of one page that stays open: evalBrowser posts `next`;
\* when the response arrives (status 200) the handler arms a timer for the
\* next evalBrowser, then evaluates the response; when that throws, the
\* catch clause arms a timer for sendErrorToServer and one more for
\* evalBrowser.  The backend puts statements that evaluate ("ok") or throw
\* ("bad").  wire holds:
\*   timers    the armed timers, per function
\*   open      the `next` requests the server has not answered
\*   resp      the responses on their way to the page, per content
\*   errors    the `error` requests the server has not answered
\*   put       the statements put so far
\*   thrown    a statement has thrown
\*   told      the page posted an `error` request since the latest throw
\*   polled    the page posted a `next` request since the latest throw
PollKinds == {"ok", "bad"}

\* statements the backend puts per run
MaxPolled == 3

\* the evalBrowser timers the response handler arms: one before eval, one
\* more in the catch clause
\* (variant: the handler that arms its timer after eval, which a throw skips)
TimersAfterEval(threw) == IF threw THEN 0 ELSE 1

Timers(threw) == IF threw THEN 2 ELSE 1

PollFrame ==
    /\ UNCHANGED <<queries, lock, error, inbox, req, pc, chain, keep, att, qid, pend,
                   hres, op, fl, calls, putLog, got, last>>
    /\ UNCHANGED pagetable
    /\ UNCHANGED sessions

\* backend code flushes a statement
PollPut(k) ==
    /\ wire.put < MaxPolled
    /\ HasRoom(tasks)
    /\ tasks' = Put(tasks, k)
    /\ wire' = [wire EXCEPT !.put = @ + 1]
    /\ PollFrame

\* a timer for evalBrowser fires: the page posts `next`
EvalBrowser ==
    /\ wire.timers.evalBrowser > 0
    /\ wire' = [wire EXCEPT !.timers.evalBrowser = @ - 1, !.open = @ + 1,
                   !.polled = TRUE]
    /\ UNCHANGED tasks
    /\ PollFrame

\* the dispatcher answers a `next` request: the head of the queue, or, the
\* queue having stayed empty for the wait, an empty body
AnswerNext ==
    /\ wire.open > 0
    /\ IF tasks # <<>>
         THEN /\ tasks' = GetRest(tasks)
              /\ wire' = [wire EXCEPT !.open = @ - 1, !.resp[GetItem(tasks)] = @ + 1]
         ELSE /\ tasks' = tasks
              /\ wire' = [wire EXCEPT !.open = @ - 1, !.resp["none"] = @ + 1]
    /\ PollFrame

\* request.onreadystatechange with readyState 4 and status 200
OnReady(k) ==
    /\ wire.resp[k] > 0
    /\ LET threw == k = "bad" IN
         wire' = [wire EXCEPT
                     !.resp[k] = @ - 1,
                     !.timers.evalBrowser = @ + Timers(threw),
                     !.timers.sendError = @ + (IF threw THEN 1 ELSE 0),
                     !.thrown = @ \/ threw,
                     !.told = @ /\ ~threw,
                     !.polled = @ /\ ~threw]
    /\ UNCHANGED tasks
    /\ PollFrame

\* the timer for sendErrorToServer fires: the page posts `error`
SendError ==
    /\ wire.timers.sendError > 0
    /\ wire' = [wire EXCEPT !.timers.sendError = @ - 1, !.errors = @ + 1,
                   !.told = TRUE]
    /\ UNCHANGED tasks
    /\ PollFrame

\* the dispatcher answers an `error` request: return ''
AnswerError ==
    /\ wire.errors > 0
    /\ wire' = [wire EXCEPT !.errors = @ - 1]
    /\ UNCHANGED tasks
    /\ PollFrame

\* window load: evalBrowser is called once
PollInit ==
    /\ tasks = <<>>
    /\ wire = [timers |-> [evalBrowser |-> 1, sendError |-> 0], open |-> 0,
               resp |-> [k \in PollKinds \cup {"none"} |-> 0], errors |-> 0,
               put |-> 0, thrown |-> FALSE, told |-> FALSE, polled |-> FALSE]
    /\ queries = <<>>
    /\ lock = "free"
    /\ error = "None"
    /\ inbox = <<>>
    /\ req = <<>>
    /\ pc = <<>>
    /\ chain = <<>>
    /\ keep = <<>>
    /\ att = <<>>
    /\ qid = <<>>
    /\ pend = <<>>
    /\ hres = <<>>
    /\ op = <<>>
    /\ fl = <<>>
    /\ calls = <<>>
    /\ putLog = <<>>
    /\ got = {}
    /\ last = <<>>
    /\ pageMap = <<>>
    /\ pageActive = <<>>
    /\ now = 0
    /\ issued = {}
    /\ contextMap = <<>>
    /\ contexts = <<>>

PollLoop ==
    \/ EvalBrowser
    \/ AnswerNext
    \/ \E k \in PollKinds \cup {"none"} : OnReady(k)
    \/ SendError
    \/ AnswerError

PollingNext ==
    \/ \E k \in PollKinds : PollPut(k)
    \/ PollLoop

SpecPoll == PollInit /\ [][PollingNext]_vars

\* the browser fires every armed timer and runs every handler whose
\* response arrived; the server answers every request
PollFairness ==
    /\ WF_vars(EvalBrowser)
    /\ WF_vars(SendError)
    /\ WF_vars(AnswerNext)
    /\ WF_vars(AnswerError)
    /\ WF_vars(\E k \in PollKinds \cup {"none"} : OnReady(k))

FairPoll == SpecPoll /\ PollFairness

\* ---------------------------------------------------------------- C29
\* C29: a failing remote statement never stops the poll loop: after a
\* statement received from `next` throws, the page posts an `error` request
\* and eventually posts another `next` request.
C29_PollLoopSurvives == wire.thrown ~> (wire.told /\ wire.polled)

\* the page evaluated a statement that threw, reported it and polled again
C29_Witness ==
    /\ wire.thrown /\ wire.told /\ wire.polled
    /\ wire.timers.evalBrowser + wire.open >= 1

\* ------------------------------------------------------------ SpecNext
\* `next` requests of valid pages of one session, each on its own request
\* thread, against a clock: getNextTask is tasks.get(timeout=taskTimeout).
\* Backend code puts statements (addTask) and an unload puts the end marker
\* None (addEndTask).  A waiting get is woken as soon as the queue has an
\* entry, so time does not pass while a waiting request can take one, nor
\* beyond a waiting request's timeout.  wire holds, per request, the time
\* its wait began and, once it returned, the time, the queue before and
\* after.
NextReqs == {"r1", "r2"}

taskTimeout == 5

\* entries put per run
MaxOffered == 3

\* queue.Queue.get(timeout): the wait is over
\* (variant: a wait that lasts one unit longer)
TimedOutLate(start, t) == t - start >= taskTimeout + 1

TimedOut(start, t) == t - start >= taskTimeout

NextFrame ==
    /\ UNCHANGED <<queries, lock, error, inbox, req, chain, keep, att, qid, pend,
                   op, fl, calls, putLog, got, last, pageMap, pageActive, issued>>
    /\ UNCHANGED sessions

\* addTask puts a statement
OfferTask ==
    /\ wire.offered < MaxOffered
    /\ HasRoom(tasks)
    /\ tasks' = Put(tasks, "stmt")
    /\ wire' = [wire EXCEPT !.offered = @ + 1]
    /\ UNCHANGED <<pc, hres, now>>
    /\ NextFrame

\* addEndTask puts None
OfferEnd ==
    /\ wire.offered < MaxOffered
    /\ tasks' = Put(tasks, "None")
    /\ wire' = [wire EXCEPT !.offered = @ + 1]
    /\ UNCHANGED <<pc, hres, now>>
    /\ NextFrame

\* processCommand reaches getNextTask: the get begins
NextBegin(r) ==
    /\ pc[r] = "idle"
    /\ pc' = [pc EXCEPT ![r] = "waiting"]
    /\ wire' = [wire EXCEPT !.start[r] = now]
    /\ UNCHANGED <<tasks, hres, now>>
    /\ NextFrame

\* the get returns the head entry; the end marker is returned as None,
\* which is also what a timeout gives
NextTake(r) ==
    /\ pc[r] = "waiting"
    /\ tasks # <<>>
    /\ tasks' = GetRest(tasks)
    /\ pc' = [pc EXCEPT ![r] = "done"]
    /\ hres' = [hres EXCEPT ![r] = GetItem(tasks)]
    /\ wire' = [wire EXCEPT !.end[r] = now, !.before[r] = tasks,
                   !.after[r] = GetRest(tasks)]
    /\ UNCHANGED now
    /\ NextFrame

\* queue.Empty after the timeout: getNextTask returns None
NextEmpty(r) ==
    /\ pc[r] = "waiting"
    /\ tasks = <<>>
    /\ TimedOut(wire.start[r], now)
    /\ pc' = [pc EXCEPT ![r] = "done"]
    /\ hres' = [hres EXCEPT ![r] = "None"]
    /\ wire' = [wire EXCEPT !.end[r] = now, !.before[r] = tasks, !.after[r] = tasks]
    /\ UNCHANGED <<tasks, now>>
    /\ NextFrame

\* the response is sent; the thread serves the page's following request
NextReply(r) ==
    /\ pc[r] = "done"
    /\ pc' = [pc EXCEPT ![r] = "idle"]
    /\ UNCHANGED <<tasks, hres, now, wire>>
    /\ NextFrame

\* time passes
NextTick ==
    /\ now < MaxTime
    /\ \A r \in NextReqs : pc[r] = "waiting" =>
          /\ tasks = <<>>
          /\ ~TimedOut(wire.start[r], now)
    /\ now' = now + 1
    /\ UNCHANGED <<tasks, pc, hres, wire>>
    /\ NextFrame

NextInit ==
    /\ tasks = <<>>
    /\ pc = [r \in NextReqs |-> "idle"]
    /\ hres = [r \in NextReqs |-> "none"]
    /\ now = 0
    /\ wire = [offered |-> 0, start |-> [r \in NextReqs |-> 0],
               end |-> [r \in NextReqs |-> 0],
               before |-> [r \in NextReqs |-> <<>>],
               after |-> [r \in NextReqs |-> <<>>]]
    /\ queries = <<>>
    /\ lock = "free"
    /\ error = "None"
    /\ inbox = <<>>
    /\ req = <<>>
    /\ chain = <<>>
    /\ keep = <<>>
    /\ att = <<>>
    /\ qid = <<>>
    /\ pend = <<>>
    /\ op = <<>>
    /\ fl = <<>>
    /\ calls = <<>>
    /\ putLog = <<>>
    /\ got = {}
    /\ last = <<>>
    /\ pageMap = <<>>
    /\ pageActive = <<>>
    /\ issued = {}
    /\ contextMap = <<>>
    /\ contexts = <<>>

NextStep ==
    \/ OfferTask
    \/ OfferEnd
    \/ \E r \in NextReqs : NextBegin(r)
    \/ \E r \in NextReqs : NextTake(r)
    \/ \E r \in NextReqs : NextEmpty(r)
    \/ \E r \in NextReqs : NextReply(r)
    \/ NextTick

SpecNext == NextInit /\ [][NextStep]_vars

\* ---------------------------------------------------------------- C30
\* request r has returned
Returned(r) == pc[r] = "done"

ChainNames == {"a", "dom", "__iter__"}

\* operations after the root per chain
MaxOps == 3

\* JSchain._statement: ''.join(self.chain)
RECURSIVE Joined(_)
Joined(c) == IF c = <<>> THEN "" ELSE Head(c) \o Joined(Tail(c))

\* JSchain._add
\* (variant: a dot before every fragment, the first too)
AddDotAlways(c, attr, dot) ==
    IF attr = "" THEN c
    ELSE IF dot THEN c \o <<".", attr>> ELSE Append(c, attr)

Add(c, attr, dot) ==
    IF attr = "" THEN c
    ELSE IF dot /\ Len(c) > 0 THEN c \o <<".", attr>> ELSE Append(c, attr)

\* JSchain.getdata
GetData(c, attr, adot) ==
    IF c[Len(c)] = "dom"
      THEN Add(Add([c EXCEPT ![Len(c)] = "document"], "getElementById", TRUE),
               "(\"" \o attr \o "\")", FALSE)
      ELSE Add(c, attr, adot)

ChainFrame ==
    /\ UNCHANGED <<tasks, queries, lock, error, inbox, req, pc, chain, keep, att, qid,
                   pend, hres, op, fl, calls, putLog, got, last>>
    /\ UNCHANGED pagetable
    /\ UNCHANGED sessions

\* js.name: JSroot.__getattr__ makes the chain and adds the name
RootGet(name) ==
    /\ wire.ops = <<>>
    /\ wire' = [wire EXCEPT !.chain = Add(<<>>, name, TRUE),
                   !.ops = <<[kind |-> "get", name |-> name]>>]
    /\ ChainFrame

\* js.name = 1: JSroot.__setattr__ makes the chain for name and assigns
\* with attr None
RootAssign(name) ==
    /\ wire.ops = <<>>
    /\ wire' = [wire EXCEPT
                   !.chain = Add(Add(Add(<<>>, name, TRUE), "", TRUE), "=1", FALSE),
                   !.ops = <<[kind |-> "set", name |-> name]>>,
                   !.open = FALSE]
    /\ ChainFrame

\* chain.name: JSchain.__getattr__
ChainGet(name) ==
    /\ wire.open /\ wire.ops # <<>> /\ Len(wire.ops) <= MaxOps
    /\ wire' = [wire EXCEPT
                   !.chain = IF name = "__iter__" THEN @ ELSE GetData(@, name, TRUE),
                   !.ops = Append(@, [kind |-> "get", name |-> name])]
    /\ ChainFrame

\* chain(1): JSchain.__call__
ChainCall ==
    /\ wire.open /\ wire.ops # <<>> /\ Len(wire.ops) <= MaxOps
    /\ wire' = [wire EXCEPT !.chain = Add(@, "(1)", FALSE),
                   !.ops = Append(@, [kind |-> "call", name |-> ""])]
    /\ ChainFrame

\* chain.name = 1: JSchain.__setattr__ and setdata, which adds the name
\* with _add, not with getdata
ChainAssign(name) ==
    /\ wire.open /\ wire.ops # <<>> /\ Len(wire.ops) <= MaxOps
    /\ wire' = [wire EXCEPT !.chain = Add(Add(@, name, TRUE), "=1", FALSE),
                   !.ops = Append(@, [kind |-> "set", name |-> name]),
                   !.open = FALSE]
    /\ ChainFrame

ChainInit ==
    /\ wire = [chain |-> <<>>, ops |-> <<>>, open |-> TRUE]
    /\ tasks = <<>>
    /\ queries = <<>>
    /\ lock = "free"
    /\ error = "None"
    /\ inbox = <<>>
    /\ req = <<>>
    /\ pc = <<>>
    /\ chain = <<>>
    /\ keep = <<>>
    /\ att = <<>>
    /\ qid = <<>>
    /\ pend = <<>>
    /\ hres = <<>>
    /\ op = <<>>
    /\ fl = <<>>
    /\ calls = <<>>
    /\ putLog = <<>>
    /\ got = {}
    /\ last = <<>>
    /\ pageMap = <<>>
    /\ pageActive = <<>>
    /\ now = 0
    /\ issued = {}
    /\ contextMap = <<>>
    /\ contexts = <<>>

ChainNext ==
    \/ \E name \in ChainNames \ {"__iter__"} : RootGet(name)
    \/ \E name \in ChainNames \ {"__iter__"} : RootAssign(name)
    \/ \E name \in ChainNames : ChainGet(name)
    \/ ChainCall
    \/ \E name \in ChainNames \ {"__iter__"} : ChainAssign(name)

SpecChain == ChainInit /\ [][ChainNext]_vars

\* ---------------------------------------------------------------- C31
\* The statement the claim describes for a list of operations.  segs are
\* the segments to be joined by '.'; dom says the last segment is a `dom`
\* that no later access has followed yet.  reads says which operations
\* count as an access of a name after `dom`; skip, which names are not
\* added at all.
Lookup31(x) == "document.getElementById(\"" \o x \o "\")"

Suffixed(segs, s) == [segs EXCEPT ![Len(segs)] = @ \o s]

RECURSIVE Described(_, _, _, _, _)
Described(ops, segs, dom, reads, skip) ==
    IF ops = <<>> THEN segs
    ELSE LET o == Head(ops)
             rest == Tail(ops)
         IN CASE o.kind = "call" ->
                   Described(rest, Suffixed(segs, "(1)"), FALSE, reads, skip)
              [] o.name \in skip ->
                   Described(rest, segs, dom, reads, skip)
              [] OTHER ->
                   LET named == IF dom /\ o.kind \in reads
                                  THEN [segs EXCEPT ![Len(segs)] = Lookup31(o.name)]
                                  ELSE Append(segs, o.name)
                       done == IF o.kind = "set" THEN Suffixed(named, "=1") ELSE named
                   IN Described(rest, done,
                                o.name = "dom" /\ o.kind = "get" /\ ~(dom /\ o.kind \in reads),
                                reads, skip)

RECURSIVE Dotted(_)
Dotted(segs) ==
    IF segs = <<>> THEN ""
    ELSE IF Len(segs) = 1 THEN segs[1]
    ELSE segs[1] \o "." \o Dotted(Tail(segs))

\* C31 as stated: every accessed name is joined, and a `dom` segment
\* followed by any access of a name X, read or assigned, becomes the lookup
\* call.
C31_Original ==
    wire.ops # <<>> =>
        Joined(wire.chain) = Dotted(Described(wire.ops, <<>>, FALSE, {"get", "set"}, {}))

\* C31: the statement of a chain is the accessed names joined by '.', with
\* no leading dot, where a `dom` segment followed by an attribute read of
\* name X is replaced by document.getElementById("X"); a name assigned
\* right after `dom` is joined as it is, the name __iter__ is not added,
\* and call arguments and assignment right-hand sides are appended without
\* a dot.
C31_StatementOfChain ==
    wire.ops # <<>> =>
        Joined(wire.chain) = Dotted(Described(wire.ops, <<>>, FALSE, {"get"}, {"__iter__"}))

\* js.dom.a(1).a = 1 gave document.getElementById("a")(1).a=1
C31_Witness ==
    /\ ~wire.open /\ Len(wire.ops) = 4
    /\ Joined(wire.chain) = "document.getElementById(\"a\")(1).a=1"

\* ---------------------------------------------------------------- C32
\* thread t's addTask gives up in this step
GivesUp(t) == AddCheck(t) /\ ~op[t].gaveUp /\ op'[t].gaveUp

\* C32: addTask gives up only at its 10th look, each look having found 5 or
\* more statements queued; it then returns without raising and without
\* enqueuing, and sets the error slot to a TimeoutError, which the next
\* access through the root handle raises.
C32_GiveUpSetsError ==
    [][\A t \in Threads :
        /\ (AddCheck(t) /\ ~HasRoom(tasks)) =>
              \/ att'[t] = att[t] + 1 /\ att'[t] < AddAttempts /\ pc'[t] = "addchk"
              \/ att[t] + 1 = AddAttempts /\ GivesUp(t)
        /\ GivesUp(t) =>
              /\ Len(tasks) >= QueueLimit /\ att[t] = AddAttempts - 1
              /\ tasks' = tasks /\ op'[t].enq = op[t].enq
              /\ error' = "TimeoutError: inserting task"
              /\ op'[t].out # "raise"
        /\ (NewChain(t) /\ error = "TimeoutError: inserting task") =>
              /\ op'[t].out = "raise" /\ op'[t].err = "TimeoutError: inserting task"
              /\ error' = "None"
      ]_vars

\* an addTask gave up on the full queue, and the next access through the
\* root handle raised the TimeoutError
C32_Witness ==
    /\ op["main"].name = "new" /\ op["main"].out = "raise"
    /\ op["main"].err = "TimeoutError: inserting task"
    /\ error = "None" /\ Len(tasks) >= QueueLimit

\* ----------------------------------------------------------- SpecBound
\* The size of one session's Task Queue: the two backend threads of
\* SpecQueue calling addTask (size test and put are separate steps), unload
\* requests putting the end marker None with addEndTask, which has no size
\* test, and one page polling.  The end marker is the entry -1; wire counts
\* the markers put.
EndMarker == -1

\* addTask calls, unload requests per run
MaxAdds == 7
MaxEnds == 1

\* addTask is called
BoundAdd(t) ==
    /\ pc[t] = "idle"
    /\ Len(calls) < MaxAdds
    /\ calls' = Append(calls, [status |-> "adding", fails |-> 0])
    /\ pend' = [pend EXCEPT ![t] = Len(calls) + 1]
    /\ att' = [att EXCEPT ![t] = 0]
    /\ pc' = [pc EXCEPT ![t] = "addchk"]
    /\ UNCHANGED <<tasks, error, inbox, putLog, got, last>>
    /\ UNCHANGED <<queries, lock, req, chain, keep, qid, hres, op, fl, wire>>
    /\ UNCHANGED pagetable
    /\ UNCHANGED sessions

\* task "unload": addEndTask, self.tasks.put(None)
AddEndTask ==
    /\ wire < MaxEnds
    /\ tasks' = Put(tasks, EndMarker)
    /\ wire' = wire + 1
    /\ UNCHANGED <<error, pc, att, pend, inbox, calls, putLog, got, last>>
    /\ UNCHANGED <<queries, lock, req, chain, keep, qid, hres, op, fl>>
    /\ UNCHANGED pagetable
    /\ UNCHANGED sessions

BoundInit ==
    /\ tasks = <<>>
    /\ error = "None"
    /\ pc = [t \in Producers |-> "idle"]
    /\ att = [t \in Producers |-> 0]
    /\ pend = [t \in Producers |-> 0]
    /\ inbox = [p \in QPages |-> 0]
    /\ calls = <<>>
    /\ putLog = <<>>
    /\ got = {}
    /\ last = [p \in QPages |-> 0]
    /\ wire = 0
    /\ queries = <<>>
    /\ lock = "free"
    /\ req = <<>>
    /\ chain = <<>>
    /\ keep = <<>>
    /\ qid = <<>>
    /\ hres = <<>>
    /\ op = <<>>
    /\ fl = <<>>
    /\ pageMap = <<>>
    /\ pageActive = <<>>
    /\ now = 0
    /\ issued = {}
    /\ contextMap = <<>>
    /\ contexts = <<>>

BoundNext ==
    \/ \E t \in Producers : BoundAdd(t)
    \/ \E t \in Producers : AddTaskCheck(t)
    \/ \E t \in Producers : AddTaskPut(t)
    \/ AddEndTask
    \/ GetNextTask("p1")
    \/ NextResponse("p1")

SpecBound == BoundInit /\ [][BoundNext]_vars

\* ---------------------------------------------------------------- C33
\* the statements in the queue (the end markers left out)
Statements == SelectSeq(tasks, LAMBDA x : x # EndMarker)

\* the threads that passed addTask's size test and have not put yet
Putting == {t \in Producers : pc[t] = "addput"}

\* C33 as stated: the Task Queue never holds more than 5 entries.
C33_Original == Len(tasks) <= QueueLimit

\* C33: the Task Queue holds at most 5 statements plus one for each other
\* backend thread that can be between addTask's size test and its put, and
\* in addition the end markers that unload requests put: with n threads
\* calling addTask, at most 4 + n statements, less the threads that passed
\* the test and have not put yet.
C33_QueueBound ==
    /\ Len(Statements) + Cardinality(Putting) <= QueueLimit - 1 + Cardinality(Producers)
    /\ Len(tasks) <= QueueLimit - 1 + Cardinality(Producers) + wire

\* both threads passed the size test at 4 entries and put, and an unload
\* added the end marker: 7 entries
C33_Witness ==
    /\ Len(Statements) = QueueLimit + 1
    /\ Len(tasks) = QueueLimit + 2

\* ---------------------------------------------------------------- C34
\* the evaluations that hold a query id: from addQuery until q.get has
\* returned or timed out
Evaluating == {t \in Threads : qid[t] # 0}

\* C34 as stated: the Pending-Query Table has no more keys than there are
\* evaluations waiting: the id of an evaluation that has read its report, or
\* has timed out, is no longer a key.  (delQuery, line 463, returns the entry
\* and deletes nothing, and the timeout path does not call it: ids stay.)
C34_Claim == Len(queries) <= Cardinality(Evaluating)

\* ---------------------------------------------------------------- C35
\* the request thread is inside run's or get's try block
InCall(r) == pc[r] \in {"lookup", "call", "getattr"}

\* the guard is held by a blocking run or a get that is inside its call
HeldByCaller ==
    \A r \in Requests :
        lock = r => InCall(r) /\ req[r].task \in {"run", "get"}

\* the guard leaves a holder only by that request's own last step
ReleasedByHolder ==
    \A r \in Requests :
        lock = r /\ lock' # r => lock' = "free" /\ InCall(r) /\ pc'[r] = "done"

\* C35: the guard is released by the request that acquired it: a request
\* holds the guard only inside a blocking run or a get, it holds it no more
\* once it has returned or raised (function returned, raised, not found, or
\* the registry id unknown), and no step of another request, one that failed
\* to acquire included, frees it or takes it over.
C35_GuardReleasedByHolder == []HeldByCaller /\ [][ReleasedByHolder]_vars

\* r1's run raised KeyError on an unknown registry id and r2, refused while
\* r1 held the guard, raised: the guard is free
C35_Witness ==
    /\ pc["r1"] = "done" /\ req["r1"].task = "run" /\ hres["r1"] = "raise KeyError"
    /\ pc["r2"] = "done" /\ hres["r2"] = "raise RuntimeError: would block"
    /\ lock = "free"

\* ---------------------------------------------------------------- C36
\* C36: the page-owner map and the last-activity map have the same page ids
\* in every state, with requests of a page served two at a time, and no
\* expire raises KeyError on a missing key.
C36_Claim ==
    /\ DOMAIN pageMap = DOMAIN pageActive
    /\ \A r \in Requests : hres[r] # "raise KeyError"

\* ---------------------------------------------------------------- C37
\* the thread's evaluation raised the Timeout after its wrapper was put
TimedOutEval(t) ==
    /\ op[t].out = "raise"
    /\ op[t].err = "TimeoutError: waiting"
    /\ op[t].enq # <<>>

\* the wrapper is in the Task Queue, or a page has it, or its report is in
\* the query's queue
NotWithdrawn(w) ==
    \/ \E i \in 1..Len(tasks) : tasks[i] = w
    \/ \E p \in Pages : inbox[p] = w
    \/ queries[w.query] # <<>>

\* a page posts the report of a wrapper nobody waits for and the dispatcher
\* puts it in the query's queue: no thread moves, nothing is raised
LateReport(p) ==
    (/\ inbox[p].kind = "wrapper"
     /\ inbox'[p] = NoTask
     /\ \A t \in Threads : qid[t] # inbox[p].query)
    => /\ Len(queries'[inbox[p].query]) = Len(queries[inbox[p].query]) + 1
       /\ UNCHANGED <<pc, op, error, hres, tasks, lock>>

\* C37: a synchronous evaluation that timed out has not withdrawn its
\* statement: the wrapper is still in the Task Queue or with a page until
\* the page has run it, and the late `state` report is put in the query's
\* queue and acknowledged while no thread is woken and nothing is raised.
C37_TimeoutKeepsStatement ==
    /\ [](\A t \in Threads : TimedOutEval(t) => NotWithdrawn(op[t].enq[1]))
    /\ [][\A p \in Pages : LateReport(p)]_vars

\* the evaluation raised the Timeout, and the page has since run the wrapper
\* and its report was accepted
C37_Witness ==
    \E t \in Threads :
        /\ TimedOutEval(t)
        /\ pc[t] # "wait"
        /\ queries[op[t].q] # <<>>

\* ---------------------------------------------------------------- C38
\* C38: a page runs a single poll loop: at most one `next` request is
\* outstanding or scheduled, also after a statement threw in the page.
\* (The response handler arms evalBrowser before eval and the catch clause
\* arms it once more: every throw adds a loop.)
C38_Claim == wire.timers.evalBrowser + wire.open <= 1

\* ------------------------------------------------------------- SpecShow
\* ClientContext.showPage for page requests of one session, served by two
\* request threads.  showPage stores the handler and a new threading.Event
\* in the context (self._handler, self._signal), starts a thread that runs
\* the page function (run_callable) and waits on the event; htmlsend, which
\* the page function calls as h(), replies through self._handler and sets
\* self._signal.  Events are numbered as they are created; 0 is None.
\* wire holds:
\*   signal    self._signal
\*   handler   self._handler
\*   events    the flag of each event
\*   thread    per request, the page-function thread it started
\*   ev        per request, the event it waits on
\*   shown     the page requests taken up so far
PageReqs == {"r1", "r2"}

\* what the requested path leads to: a page function that calls h(), one
\* that raises before it, one that returns without it; /favicon.ico; a path
\* with no page function
PageKinds == {"emit", "raise", "quiet", "favicon", "missing"}

\* page requests per run
MaxShown == 3

ShowFrame ==
    /\ UNCHANGED <<tasks, queries, lock, error, inbox, req, chain, keep, att, qid, pend,
                   op, fl, calls, putLog, got, last>>
    /\ UNCHANGED pagetable
    /\ UNCHANGED sessions

\* showPage, lines 589-610: the page function is looked up; the handler and
\* a new event are stored and the thread is started
ShowPage(r, kind) ==
    /\ pc[r] = "idle"
    /\ wire.shown < MaxShown
    /\ CASE kind = "favicon" ->
              /\ hres' = [hres EXCEPT ![r] = "404"]
              /\ pc' = [pc EXCEPT ![r] = "done"]
              /\ wire' = [wire EXCEPT !.shown = @ + 1]
         [] kind = "missing" ->
              /\ hres' = [hres EXCEPT ![r] = "raise RuntimeWarning"]
              /\ pc' = [pc EXCEPT ![r] = "done"]
              /\ wire' = [wire EXCEPT !.shown = @ + 1]
         [] OTHER ->
              /\ wire' = [wire EXCEPT !.shown = @ + 1,
                                      !.handler = r,
                                      !.events = Append(@, FALSE),
                                      !.signal = Len(wire.events) + 1,
                                      !.thread[r] = kind]
              /\ pc' = [pc EXCEPT ![r] = "started"]
              /\ hres' = hres
    /\ ShowFrame

\* line 612, `self._signal.wait()`: the attribute is read and the thread
\* waits on that event; None has no wait
ShowWait(r) ==
    /\ pc[r] = "started"
    /\ IF wire.signal = 0
         THEN /\ hres' = [hres EXCEPT ![r] = "raise AttributeError"]
              /\ pc' = [pc EXCEPT ![r] = "done"]
              /\ wire' = wire
         ELSE /\ wire' = [wire EXCEPT !.ev[r] = wire.signal]
              /\ pc' = [pc EXCEPT ![r] = "wait"]
              /\ hres' = hres
    /\ ShowFrame

\* Event.wait returns once the event is set (no timeout is given)
WaitEnds(flag) == flag

\* lines 612-613: the wait is over; self._signal = None
ShowWake(r) ==
    /\ pc[r] = "wait"
    /\ WaitEnds(wire.events[wire.ev[r]])
    /\ wire' = [wire EXCEPT !.signal = 0]
    /\ pc' = [pc EXCEPT ![r] = "done"]
    /\ hres' = hres
    /\ ShowFrame

\* htmlsend, lines 317-319, called by the page function as h():
\* self._handler.reply(html)
HtmlReply(r) ==
    /\ wire.thread[r] = "emit"
    /\ hres' = [hres EXCEPT ![wire.handler] = "html"]
    /\ wire' = [wire EXCEPT !.thread[r] = "replied"]
    /\ pc' = pc
    /\ ShowFrame

\* htmlsend, line 321: self._signal.set(); on None the AttributeError ends
\* the page function and run_callable logs it
HtmlSignal(r) ==
    /\ wire.thread[r] = "replied"
    /\ wire' = [wire EXCEPT !.thread[r] = "ended",
                            !.events = IF wire.signal = 0 THEN @
                                       ELSE [@ EXCEPT ![wire.signal] = TRUE]]
    /\ UNCHANGED <<pc, hres>>
    /\ ShowFrame

\* run_callable, lines 615-624: the page function returned without h(), or
\* raised and the exception was printed and logged
RunCallableEnd(r) ==
    /\ wire.thread[r] \in {"raise", "quiet"}
    /\ wire' = [wire EXCEPT !.thread[r] = "ended"]
    /\ UNCHANGED <<pc, hres>>
    /\ ShowFrame

\* the request thread is back from showPage and takes the next request
ShowReturn(r) ==
    /\ pc[r] = "done"
    /\ wire.thread[r] \in {"none", "ended"}
    /\ pc' = [pc EXCEPT ![r] = "idle"]
    /\ hres' = [hres EXCEPT ![r] = "none"]
    /\ wire' = [wire EXCEPT !.thread[r] = "none", !.ev[r] = 0]
    /\ ShowFrame

ShowInit ==
    /\ pc = [r \in PageReqs |-> "idle"]
    /\ hres = [r \in PageReqs |-> "none"]
    /\ wire = [signal |-> 0, handler |-> "none", events |-> <<>>,
               thread |-> [r \in PageReqs |-> "none"],
               ev |-> [r \in PageReqs |-> 0], shown |-> 0]
    /\ tasks = <<>>
    /\ queries = <<>>
    /\ lock = "free"
    /\ error = "None"
    /\ inbox = <<>>
    /\ req = <<>>
    /\ chain = <<>>
    /\ keep = <<>>
    /\ att = <<>>
    /\ qid = <<>>
    /\ pend = <<>>
    /\ op = <<>>
    /\ fl = <<>>
    /\ calls = <<>>
    /\ putLog = <<>>
    /\ got = {}
    /\ last = <<>>
    /\ pageMap = <<>>
    /\ pageActive = <<>>
    /\ now = 0
    /\ issued = {}
    /\ contextMap = <<>>
    /\ contexts = <<>>

ShowNext ==
    \/ \E r \in PageReqs, kind \in PageKinds : ShowPage(r, kind)
    \/ \E r \in PageReqs : ShowWait(r)
    \/ \E r \in PageReqs : ShowWake(r)
    \/ \E r \in PageReqs : HtmlReply(r)
    \/ \E r \in PageReqs : HtmlSignal(r)
    \/ \E r \in PageReqs : RunCallableEnd(r)
    \/ \E r \in PageReqs : ShowReturn(r)

SpecShow == ShowInit /\ [][ShowNext]_vars

\* ---------------------------------------------------------------- C39
\* the request waits on an event that is not set while no page function is
\* on its way to htmlsend: nothing will set it
WaitsForever(r) ==
    /\ pc[r] = "wait"
    /\ ~wire.events[wire.ev[r]]
    /\ \A s \in PageReqs : wire.thread[s] \notin {"emit", "replied"}

\* C39: every page request served through showPage returns to its request
\* thread: no request is left waiting on its render signal once its page
\* function has emitted HTML, has raised, or has returned without h().
C39_Claim == \A r \in PageReqs : ~WaitsForever(r)

\* ------------------------------------------------------------ SpecInject
\* HtmlPage.insertJS as a function of the document.  A document is a
\* sequence of pieces on one line: plain text ("text"), the tags and the
\* placeholder the patterns look for, and the reference to the bootstrap
\* script (`<script src="appscript.js">`, "appscript").  The output holds
\* the same pieces and the injected blocks:
\*   "[U]"     <script>U</script>               U: the UID and PAGEID line
\*   "[UJ]"    U + JSCRIPT
\*   "[sUJ]"   <script>U + JSCRIPT</script>
\*   "[hUJ]"   <head><script>U + JSCRIPT</script></head>
Pieces == {"text", "appscript", "{{JSCRIPT}}", "<script>", "</head>", "<body>", "<html>"}
Blocks == {"[U]", "[UJ]", "[sUJ]", "[hUJ]"}

\* longest document explored, in pieces
MaxDoc == 3

Docs == UNION {[1..n -> Pieces] : n \in 0..MaxDoc}

\* p.search(html) for the patterns of _plist: the place of the first match,
\* 0 for none
Search(p, html) ==
    IF \E i \in 1..Len(html) : html[i] = p
      THEN CHOOSE i \in 1..Len(html) : html[i] = p /\ \A j \in 1..(i - 1) : html[j] # p
      ELSE 0

\* _pscript, `<script.*\s+src\s*=\s*"appscript.js"`: the first `<script`
\* that has the reference at or after it
SearchScript(html) ==
    LET starts == {i \in 1..Len(html) :
                     /\ html[i] \in {"<script>", "appscript"}
                     /\ \E j \in i..Len(html) : html[j] = "appscript"}
    IN IF starts = {} THEN 0 ELSE CHOOSE i \in starts : \A j \in starts : i <= j

\* html[:sx] and html[sx:], sx counted from 1
Before(html, sx) == SubSeq(html, 1, sx - 1)
From(html, sx) == SubSeq(html, sx, Len(html))

\* lines 743-744, the `<body>` and `<html>` cases:
\* html[:sx] + b"<head><script>" + U + JSCRIPT + b"</script></head>" + html
AtBody(html, sx) == Before(html, sx) \o <<"[hUJ]">> \o html

\* lines 728-745
Inserted(html) ==
    LET ms == SearchScript(html)
        m0 == Search("{{JSCRIPT}}", html)
        m1 == Search("<script>", html)
        m2 == Search("</head>", html)
        m3 == Search("<body>", html)
        m4 == Search("<html>", html)
    IN CASE ms # 0 -> Before(html, ms) \o <<"[U]">> \o From(html, ms)
         [] ms = 0 /\ m0 # 0 -> Before(html, m0) \o <<"[UJ]">> \o From(html, m0 + 1)
         [] ms = 0 /\ m0 = 0 /\ m1 # 0 -> Before(html, m1) \o <<"[sUJ]">> \o From(html, m1)
         [] ms = 0 /\ m0 = 0 /\ m1 = 0 /\ m2 # 0 ->
               Before(html, m2) \o <<"[sUJ]">> \o From(html, m2)
         [] ms = 0 /\ m0 = 0 /\ m1 = 0 /\ m2 = 0 /\ m3 # 0 -> AtBody(html, m3)
         [] ms = 0 /\ m0 = 0 /\ m1 = 0 /\ m2 = 0 /\ m3 = 0 /\ m4 # 0 -> AtBody(html, m4)
         [] OTHER -> <<"[hUJ]">> \o html

\* HtmlPage.html(uid): insertJS registers the page and returns the document
\* with the script
Render ==
    /\ wire.pc = "input"
    /\ wire' = [wire EXCEPT !.pc = "done", !.out = Inserted(wire.html)]
    /\ pageMap' = Touch(pageMap, "p1", "u1")
    /\ pageActive' = Touch(pageActive, "p1", now)
    /\ UNCHANGED <<tasks, queries, lock, error, inbox, req, pc, chain, keep, att, qid, pend,
                   hres, op, fl, calls, putLog, got, last, now, issued>>
    /\ UNCHANGED sessions

InjectInit ==
    /\ wire \in [pc : {"input"}, html : Docs, out : {<<>>}]
    /\ pageMap = <<>>
    /\ pageActive = <<>>
    /\ now = 0
    /\ issued = {}
    /\ tasks = <<>>
    /\ queries = <<>>
    /\ lock = "free"
    /\ error = "None"
    /\ inbox = <<>>
    /\ req = <<>>
    /\ pc = <<>>
    /\ chain = <<>>
    /\ keep = <<>>
    /\ att = <<>>
    /\ qid = <<>>
    /\ pend = <<>>
    /\ hres = <<>>
    /\ op = <<>>
    /\ fl = <<>>
    /\ calls = <<>>
    /\ putLog = <<>>
    /\ got = {}
    /\ last = <<>>
    /\ contextMap = <<>>
    /\ contexts = <<>>

InjectNext == Render

SpecInject == InjectInit /\ [][InjectNext]_vars

\* ---------------------------------------------------------------- C40
\* the output without the injected block
Stripped(out) == SelectSeq(out, LAMBDA x : x \notin Blocks)

\* C40: insertJS only adds content: for every document, the output without
\* the injected block is the input, piece by piece, whichever injection
\* point matched.  (At `<body>` and `<html>` the output is html[:sx], the
\* block and the whole of html: the text before the tag comes twice.)
C40_Claim == wire.pc = "done" => Stripped(wire.out) = wire.html

====
